---- MODULE Spec2Model ----
(***************************************************************************)
(* Model of the indexer's update pipeline (src/index/updater.rs):          *)
(* the DRC-20 ledger updater, the DNS registrar and the commit discipline  *)
(* of update_index.                                                        *)
(***************************************************************************)
EXTENDS Integers, Sequences, FiniteSets, TLC

VARIABLES
  height,          \* Updater.height of the DRC-20 / DNS indexing run
  next_txid,       \* identity of the next transaction (txids are unique)
  cur_tx,          \* the transaction the loop over block.txdata is at
  pre,             \* the tables as they were when cur_tx was indexed (history)
  token_table,     \* DRC20_TICK_TO_TOKEN      : lowercase tick -> Drc20Token
  balance_table,   \* DRC20_BALANCE            : <<address, tick>> -> u128
  transferable_table, \* DRC20_TRANSFERABLE    : <<address, tick>> -> u128
  outpoint_to_transfer, \* DRC20_OUTPOINT_TO_TRANSFER : outpoint -> Drc20Transfer
  drc20_tokens,    \* Statistic::Drc20Tokens
  dns_name_to_entry,          \* DNS_NAME_TO_ENTRY          : name -> DnsEntry
  dns_inscription_id_to_name, \* DNS_INSCRIPTION_ID_TO_NAME : inscription id -> name
  dns_namespace_to_names,     \* DNS_NAMESPACE_TO_NAMES     : multimap, a set of <<namespace, name>>
  dns_names,                  \* Statistic::DnsNames
  chain,                 \* the fixed sequence of blocks the node serves
  store,                 \* the committed tables of the redb database
  wtx,                   \* the tables as the open write transaction sees them
  utxo_cache,            \* update_index's utxo_cache : outpoint -> UtxoEntryBuf
  uncommitted,           \* update_index's count of blocks indexed since the last commit
  starting_index_height, \* update_index's starting_index_height
  outputs_traversed,     \* Updater.outputs_traversed
  sat_ranges_since_flush, \* Updater.sat_ranges_since_flush
  running,               \* "no", "loop" (in the while loop) or "ended" (the loop has ended)
  shutting_down,         \* SHUTTING_DOWN
  commit_log,            \* the steps of the commit of the last pass of update_index, if it had one
  sat_range,             \* a coin range (start, end), or None
  sat_value,             \* SatRange::store of sat_range, or None
  sat_loaded,            \* SatRange::load of sat_value, or None
  sat_tx,                \* the arguments of a call of index_transaction_sats, or None
  sat_result,            \* what that call left behind, or None
  sat_block,             \* a block whose coin ranges index_utxo_entries is to track, or None
  sat_block_result,      \* what index_utxo_entries made of that block's coin ranges, or None
  amount_in,             \* the arguments <<s, decimals>> of a call of parse_amount, or None
  amount_out,            \* <<what that call returned>>, or None
  batch_in,              \* the outpoints queued and the concurrency limit <<queued, N>> of one pass of the prefetch loop, or None
  batch_out,             \* what that pass took into its batch and how it split it, or None
  serve_in,              \* a height, a first index height and a block-location database <<h, first_index_height, records, damage>>, or None
  serve_out,             \* what the block files and the node each give for that height, or None
  epoch_in,              \* a height whose subsidy and coin numbers are asked for, or None
  epoch_out,             \* what epoch.rs answers for that height, or None
  shared_headers,        \* HEIGHT_TO_BLOCK_HEADER of a store that two updaters share, as committed, or None
  write_lock,            \* the updater whose write transaction on that store is open, or None
  updaters,              \* the two updaters: where each stands, its height, its uncommitted blocks, or None
  node_chain,            \* the main chain of the upstream node
  node_reorged,          \* the node has switched to another branch (history)
  blk_records,           \* the records of the block-location database in key order, or None
  fast_reader,           \* fetch_blocks_from's fast_reader: Some(BlkIndex) or None
  fetch_height,          \* `height` of the thread of fetch_blocks_from
  fetch_ended,           \* that thread has left its loop (or was never started)
  rx,                    \* the blocks in the channel of fetch_blocks_from
  delivered,             \* the blocks rx.recv() has returned in this update_index (history)
  rpc_gave_up,           \* get_block_with_retries has returned Err in this update_index (history)
  last_fetch,            \* the last pass of the thread's loop: was the record corrupt, the outcome, its origin
  height_limit,          \* index.height_limit
  integration_test,      \* settings.integration_test()
  result,                \* how the last update_index ended: "none", "ok", "reorg", "error"
  savepoints,            \* the savepoints of the database, oldest first
  unrecoverably_reorged, \* the index is marked unrecoverably reorged
  rolled_back,           \* the index was rolled back to a savepoint (history)
  block_inputs,          \* the missing inputs of the block index_utxo_entries is at, in block order
  requested,             \* how many of them output_sender.blocking_send has sent
  outpoint_channel,      \* the mpsc channel of outpoints, oldest first
  fetcher,               \* the fetcher task: "waiting", "batching" or "sending"
  outpoints,             \* the fetcher's batch `outpoints`
  txs,                   \* the fetcher's `txs`, flattened
  send_index,            \* `i` of the fetcher's send loop
  txout_channel,         \* the values the broadcast channel retains, oldest first
  lagged,                \* the broadcast channel has overwritten a value the receiver has not read
  txouts,                \* the outputs txout_receiver.blocking_recv has returned for this block
  main,                  \* index_utxo_entries: "idle", "sending", "indexing", "failed", "panicked"
  inputs_spent,          \* how many inputs of the block the indexing loop has spent
  blocks_indexed         \* blocks index_utxo_entries has finished

drcVars == <<height, next_txid, cur_tx, pre, token_table, balance_table,
             transferable_table, outpoint_to_transfer, drc20_tokens>>

dnsVars == <<dns_name_to_entry, dns_inscription_id_to_name,
             dns_namespace_to_names, dns_names>>

runVars == <<chain, store, wtx, utxo_cache, uncommitted, starting_index_height,
             outputs_traversed, sat_ranges_since_flush, running, shutting_down,
             commit_log>>

satVars == <<sat_range, sat_value, sat_loaded, sat_tx, sat_result, sat_block,
             sat_block_result, amount_in, amount_out, batch_in, batch_out,
             serve_in, serve_out, epoch_in, epoch_out,
                 shared_headers, write_lock, updaters>>

srcVars == <<node_chain, node_reorged, blk_records, fast_reader, fetch_height,
             fetch_ended, rx, delivered, rpc_gave_up, last_fetch, height_limit,
             integration_test, result, savepoints, unrecoverably_reorged, rolled_back>>

fetchVars == <<block_inputs, requested, outpoint_channel, fetcher, outpoints,
               txs, send_index, txout_channel, lagged, txouts, main,
               inputs_spent, blocks_indexed>>

\* the variables of the coin-range runs, of the block-source runs and of the
\* input prefetcher
restVars == <<satVars, srcVars, fetchVars>>

vars == <<drcVars, dnsVars, runVars, restVars>>

----------------------------------------------------------------------------
(* Bounds *)

MaxTx == 3          \* transactions indexed in one behaviour

MaxHeight == 1      \* blocks started in one behaviour

NodeBlocks == 4     \* blocks of the upstream node's chain

BlockChannelCapacity == 2 \* sync_channel(32) of fetch_blocks_from

SavepointInterval == 2    \* settings.savepoint_interval()

MaxSavepoints == 2        \* settings.max_savepoints()

ChannelBufferSize == 3    \* CHANNEL_BUFFER_SIZE of spawn_fetcher

BatchSize == 2            \* BATCH_SIZE of spawn_fetcher

ParallelRequests == 2     \* settings.bitcoin_rpc_limit()

MaxMissing == 6           \* missing inputs of one block

MaxFetchBlocks == 2       \* blocks whose inputs are prefetched in one behaviour

NumBlocks == 3      \* blocks of the chain the two runs index

CommitInterval == 2 \* settings.commit_interval() of the two runs

----------------------------------------------------------------------------
(* Generic helpers *)

\* Option<T>: None is the empty tuple, Some(x) the one-element tuple
None == <<>>

Some(x) == <<x>>

Min(a, b) == IF a < b THEN a ELSE b

RECURSIVE Pow10(_)
Pow10(n) == IF n = 0 THEN 1 ELSE 10 * Pow10(n - 1)

\* f with key k bound to v (redb Table::insert: add or overwrite)
Insert(f, k, v) == [x \in DOMAIN f \cup {k} |-> IF x = k THEN v ELSE f[x]]

\* f without key k (redb Table::remove)
Remove(f, k) == [x \in DOMAIN f \ {k} |-> f[x]]

\* table.get(key).and_then(from_slice).unwrap_or(0)
GetOr0(f, k) == IF k \in DOMAIN f THEN f[k] ELSE 0

EmptyTable == [x \in {} |-> 0]

----------------------------------------------------------------------------
(* Strings are sequences of one-character strings *)

Digits == <<"0", "1", "2", "3", "4", "5", "6", "7", "8", "9">>

IsDigit(c) == \E i \in 1..10 : Digits[i] = c

DigitVal(c) == (CHOOSE i \in 1..10 : Digits[i] = c) - 1

IsSpace(c) == c \in {" ", "\t", "\n"}

\* str::trim: drop leading and trailing whitespace
RECURSIVE TrimStart(_)
TrimStart(s) == IF Len(s) > 0 /\ IsSpace(s[1]) THEN TrimStart(Tail(s)) ELSE s

RECURSIVE TrimEnd(_)
TrimEnd(s) ==
  IF Len(s) > 0 /\ IsSpace(s[Len(s)]) THEN TrimEnd(SubSeq(s, 1, Len(s) - 1)) ELSE s

Trim(s) == TrimEnd(TrimStart(s))

\* str::find('.') : 1-based index of the first dot, 0 when there is none
FindDot(s) ==
  IF \E i \in 1..Len(s) : s[i] = "."
  THEN CHOOSE i \in 1..Len(s) : s[i] = "." /\ \A j \in 1..(i - 1) : s[j] # "."
  ELSE 0

RECURSIVE DigitsValue(_)
DigitsValue(s) ==
  IF Len(s) = 0 THEN 0
  ELSE 10 * DigitsValue(SubSeq(s, 1, Len(s) - 1)) + DigitVal(s[Len(s)])

\* <u128 as FromStr>::from_str: an optional leading '+', then one or more
\* decimal digits; anything else is an error (None)
ParseU128(s) ==
  LET body == IF Len(s) > 0 /\ s[1] = "+" THEN Tail(s) ELSE s
  IN  IF Len(body) = 0 \/ \E i \in 1..Len(body) : ~IsDigit(body[i])
      THEN None
      ELSE Some(DigitsValue(body))

\* u64::to_string
RECURSIVE u64_to_string(_)
u64_to_string(n) ==
  IF n < 10 THEN <<Digits[n + 1]>>
  ELSE u64_to_string(n \div 10) \o <<Digits[(n % 10) + 1]>>

parse_amount(str, decimals) ==
  LET s == Trim(str)
      scale == Pow10(decimals)
      dot == FindDot(s)
  IN  IF \/ Len(s) = 0
         \/ s[1] = "+"
         \/ s[1] = "-"
         \/ s[1] = "."
         \/ s[Len(s)] = "."
         \/ \E i \in 1..Len(s) : s[i] = " "
      THEN None
      ELSE IF dot # 0
      THEN LET int_part == ParseU128(SubSeq(s, 1, dot - 1))
               frac_str == SubSeq(s, dot + 1, Len(s))
               frac_part == IF Len(frac_str) = 0 THEN Some(0) ELSE ParseU128(frac_str)
           IN  IF int_part = None THEN None
               ELSE IF Len(frac_str) > decimals THEN None
               ELSE IF frac_part = None THEN None
               ELSE Some(int_part[1] * scale
                         + frac_part[1] * Pow10(decimals - Len(frac_str)))
      ELSE LET n == ParseU128(s)
           IN  IF n = None THEN None ELSE Some(n[1] * scale)

\* A JSON value is Absent, a string [t |-> "str", v |-> chars] or an unsigned
\* integer [t |-> "num", v |-> its decimal digits]
Absent == [t |-> "absent", v |-> <<>>]

JStr(s) == [t |-> "str", v |-> s]

JNum(n) == [t |-> "num", v |-> u64_to_string(n)]

\* Value::as_str
as_str(v) == IF v.t = "str" THEN Some(v.v) ELSE None

\* Value::as_u64
as_u64(v) == IF v.t = "num" THEN Some(DigitsValue(v.v)) ELSE None

json_to_amount_str(v) ==
  IF v.t = "str" THEN Some(v.v)
  ELSE IF v.t = "num" THEN Some(u64_to_string(DigitsValue(v.v)))
  ELSE None

Lower(c) ==
  CASE c = "D" -> "d"
    [] c = "O" -> "o"
    [] c = "G" -> "g"
    [] c = "I" -> "i"
    [] c = "W" -> "w"
    [] c = "F" -> "f"
    [] c = "E" -> "e"
    [] OTHER -> c

\* str::to_lowercase
to_lowercase(s) == [i \in 1..Len(s) |-> Lower(s[i])]

StartsWith(s, prefix) ==
  Len(s) >= Len(prefix) /\ SubSeq(s, 1, Len(prefix)) = prefix

----------------------------------------------------------------------------
(* Scripts and addresses *)

P2PKH_VERSION == 30

P2SH_VERSION == 22

\* dogecoin_base58check(version, payload): injective in (version, payload)
dogecoin_base58check(version, payload) == <<version, payload>>

\* A script is [kind, hash]; only p2pkh and p2sh scripts have an address
dogecoin_address_string(script) ==
  IF script.kind = "p2pkh" THEN Some(dogecoin_base58check(P2PKH_VERSION, script.hash))
  ELSE IF script.kind = "p2sh" THEN Some(dogecoin_base58check(P2SH_VERSION, script.hash))
  ELSE None

address_string_from_script(script) == dogecoin_address_string(script)

----------------------------------------------------------------------------
(* DRC-20 ledger.  db is the set of tables the DRC-20 updater writes:        *)
(* tok, bal, trf, pend, ntok (the Drc20Tokens statistic)                     *)

\* format!("{}\t{}", address, tick): addresses hold no tab, so the key
\* determines the pair
BalKey(addr, tick) == <<addr, tick>>

SaturatingSub(a, b) == IF a >= b THEN a - b ELSE 0

\* CompleteTransfer with the sender debited even when nothing is credited
CompleteTransfer_DebitOnBurn(db, tx, prev) ==
  IF prev \notin DOMAIN db.pend THEN db
  ELSE
    LET transfer == db.pend[prev]
        recv_addr == IF Len(tx.output) > 0
                     THEN address_string_from_script(tx.output[1])
                     ELSE None
        recv_key == BalKey(recv_addr[1], transfer.tick)
        send_key == BalKey(transfer.from_address, transfer.tick)
        credited ==
          IF recv_addr = None
          THEN [db EXCEPT !.trf =
                  Insert(@, send_key,
                         SaturatingSub(GetOr0(@, send_key), transfer.amount))]
          ELSE LET db1 == [db EXCEPT !.bal =
                             Insert(@, recv_key, GetOr0(@, recv_key) + transfer.amount)]
               IN  [db1 EXCEPT !.trf =
                      Insert(@, send_key,
                             SaturatingSub(GetOr0(@, send_key), transfer.amount))]
    IN  [credited EXCEPT !.pend = Remove(@, prev)]

\* CompleteTransfer with a burned amount handed back to the sender's available
\* balance
CompleteTransfer_RefundOnBurn(db, tx, prev) ==
  IF prev \notin DOMAIN db.pend THEN db
  ELSE
    LET transfer == db.pend[prev]
        recv_addr == IF Len(tx.output) > 0
                     THEN address_string_from_script(tx.output[1])
                     ELSE None
        recv_key == BalKey(IF recv_addr = None THEN transfer.from_address
                           ELSE recv_addr[1], transfer.tick)
        send_key == BalKey(transfer.from_address, transfer.tick)
        db1 == [db EXCEPT !.bal =
                  Insert(@, recv_key, GetOr0(@, recv_key) + transfer.amount)]
        credited == [db1 EXCEPT !.trf =
                       Insert(@, send_key,
                              SaturatingSub(GetOr0(@, send_key), transfer.amount))]
    IN  [credited EXCEPT !.pend = Remove(@, prev)]

\* Step 1 of index_drc20_transaction for one input
CompleteTransfer(db, tx, prev) ==
  IF prev \notin DOMAIN db.pend THEN db
  ELSE
    LET transfer == db.pend[prev]
        recv_addr == IF Len(tx.output) > 0
                     THEN address_string_from_script(tx.output[1])
                     ELSE None
        recv_key == BalKey(recv_addr[1], transfer.tick)
        send_key == BalKey(transfer.from_address, transfer.tick)
        credited ==
          IF recv_addr = None THEN db
          ELSE LET db1 == [db EXCEPT !.bal =
                             Insert(@, recv_key, GetOr0(@, recv_key) + transfer.amount)]
               IN  [db1 EXCEPT !.trf =
                      Insert(@, send_key,
                             SaturatingSub(GetOr0(@, send_key), transfer.amount))]
    IN  [credited EXCEPT !.pend = Remove(@, prev)]

RECURSIVE CompleteTransfers(_, _, _)
CompleteTransfers(db, tx, i) ==
  IF i > Len(tx.input) THEN db
  ELSE CompleteTransfers(CompleteTransfer(db, tx, tx.input[i].previous_output),
                         tx, i + 1)

\* drc20_deploy with the first-deploy check made on the tick as written
drc20_deploy_CaseSensitive(db, json, inscription_id, deployer, blk_time, h) ==
  LET tick_raw == as_str(json.tick)
      tick_lower == to_lowercase(tick_raw[1])
      dec_opt == as_u64(json.dec)
      dec == Min(IF dec_opt = None THEN 8 ELSE dec_opt[1], 18)
      max_str == json_to_amount_str(json.max)
      max_supply == parse_amount(max_str[1], dec)
      lim_opt == json_to_amount_str(json.lim)
      lim_str == IF lim_opt = None THEN max_str[1] ELSE lim_opt[1]
      mint_limit == parse_amount(lim_str, dec)
      token == [tick |-> tick_raw[1],
                max_supply |-> max_supply[1],
                mint_limit |-> mint_limit[1],
                decimals |-> dec,
                minted |-> 0,
                deploy_inscription |-> inscription_id,
                deploy_height |-> h,
                deploy_timestamp |-> blk_time,
                deployer |-> deployer,
                mint_count |-> 0]
  IN  IF tick_raw = None THEN db
      ELSE IF Len(tick_raw[1]) # 4 THEN db
      ELSE IF tick_raw[1] \in DOMAIN db.tok THEN db
      ELSE IF max_str = None THEN db
      ELSE IF max_supply = None THEN db
      ELSE IF max_supply[1] = 0 THEN db
      ELSE IF mint_limit = None THEN db
      ELSE IF mint_limit[1] = 0 THEN db
      ELSE [db EXCEPT !.tok = Insert(@, tick_lower, token),
                      !.ntok = @ + 1]

\* drc20_deploy without the first-deploy check
drc20_deploy_Overwrite(db, json, inscription_id, deployer, blk_time, h) ==
  LET tick_raw == as_str(json.tick)
      tick_lower == to_lowercase(tick_raw[1])
      dec_opt == as_u64(json.dec)
      dec == Min(IF dec_opt = None THEN 8 ELSE dec_opt[1], 18)
      max_str == json_to_amount_str(json.max)
      max_supply == parse_amount(max_str[1], dec)
      lim_opt == json_to_amount_str(json.lim)
      lim_str == IF lim_opt = None THEN max_str[1] ELSE lim_opt[1]
      mint_limit == parse_amount(lim_str, dec)
      token == [tick |-> tick_raw[1],
                max_supply |-> max_supply[1],
                mint_limit |-> mint_limit[1],
                decimals |-> dec,
                minted |-> 0,
                deploy_inscription |-> inscription_id,
                deploy_height |-> h,
                deploy_timestamp |-> blk_time,
                deployer |-> deployer,
                mint_count |-> 0]
  IN  IF tick_raw = None THEN db
      ELSE IF Len(tick_raw[1]) # 4 THEN db
      ELSE IF max_str = None THEN db
      ELSE IF max_supply = None THEN db
      ELSE IF max_supply[1] = 0 THEN db
      ELSE IF mint_limit = None THEN db
      ELSE IF mint_limit[1] = 0 THEN db
      ELSE [db EXCEPT !.tok = Insert(@, tick_lower, token),
                      !.ntok = @ + 1]

drc20_deploy(db, json, inscription_id, deployer, blk_time, h) ==
  LET tick_raw == as_str(json.tick)
      tick_lower == to_lowercase(tick_raw[1])
      dec_opt == as_u64(json.dec)
      dec == Min(IF dec_opt = None THEN 8 ELSE dec_opt[1], 18)
      max_str == json_to_amount_str(json.max)
      max_supply == parse_amount(max_str[1], dec)
      lim_opt == json_to_amount_str(json.lim)
      lim_str == IF lim_opt = None THEN max_str[1] ELSE lim_opt[1]
      mint_limit == parse_amount(lim_str, dec)
      token == [tick |-> tick_raw[1],
                max_supply |-> max_supply[1],
                mint_limit |-> mint_limit[1],
                decimals |-> dec,
                minted |-> 0,
                deploy_inscription |-> inscription_id,
                deploy_height |-> h,
                deploy_timestamp |-> blk_time,
                deployer |-> deployer,
                mint_count |-> 0]
  IN  IF tick_raw = None THEN db
      ELSE IF Len(tick_raw[1]) # 4 THEN db
      ELSE IF tick_lower \in DOMAIN db.tok THEN db
      ELSE IF max_str = None THEN db
      ELSE IF max_supply = None THEN db
      ELSE IF max_supply[1] = 0 THEN db
      ELSE IF mint_limit = None THEN db
      ELSE IF mint_limit[1] = 0 THEN db
      ELSE [db EXCEPT !.tok = Insert(@, tick_lower, token),
                      !.ntok = @ + 1]

\* drc20_mint without the per-mint limit
drc20_mint_NoLimit(db, json, recipient) ==
  LET tick_raw == as_str(json.tick)
      tick_lower == to_lowercase(tick_raw[1])
      token == db.tok[tick_lower]
      amt_str == json_to_amount_str(json.amt)
      parsed == parse_amount(amt_str[1], token.decimals)
      remaining == token.max_supply - token.minted
      amt == IF parsed[1] > remaining THEN remaining ELSE parsed[1]
      bal_key == BalKey(recipient, tick_lower)
  IN  IF tick_raw = None THEN db
      ELSE IF Len(tick_raw[1]) # 4 THEN db
      ELSE IF tick_lower \notin DOMAIN db.tok THEN db
      ELSE IF token.minted >= token.max_supply THEN db
      ELSE IF amt_str = None THEN db
      ELSE IF parsed = None THEN db
      ELSE IF parsed[1] = 0 THEN db
      ELSE [db EXCEPT
              !.bal = Insert(@, bal_key, GetOr0(@, bal_key) + amt),
              !.tok = Insert(@, tick_lower,
                             [token EXCEPT !.minted = @ + amt,
                                           !.mint_count = @ + 1])]

\* drc20_mint without the cap at the remaining supply
drc20_mint_Uncapped(db, json, recipient) ==
  LET tick_raw == as_str(json.tick)
      tick_lower == to_lowercase(tick_raw[1])
      token == db.tok[tick_lower]
      amt_str == json_to_amount_str(json.amt)
      parsed == parse_amount(amt_str[1], token.decimals)
      remaining == token.max_supply - token.minted
      amt == parsed[1]
      bal_key == BalKey(recipient, tick_lower)
  IN  IF tick_raw = None THEN db
      ELSE IF Len(tick_raw[1]) # 4 THEN db
      ELSE IF tick_lower \notin DOMAIN db.tok THEN db
      ELSE IF token.minted >= token.max_supply THEN db
      ELSE IF amt_str = None THEN db
      ELSE IF parsed = None THEN db
      ELSE IF parsed[1] = 0 THEN db
      ELSE IF parsed[1] > token.mint_limit THEN db
      ELSE [db EXCEPT
              !.bal = Insert(@, bal_key, GetOr0(@, bal_key) + amt),
              !.tok = Insert(@, tick_lower,
                             [token EXCEPT !.minted = @ + amt,
                                           !.mint_count = @ + 1])]

drc20_mint(db, json, recipient) ==
  LET tick_raw == as_str(json.tick)
      tick_lower == to_lowercase(tick_raw[1])
      token == db.tok[tick_lower]
      amt_str == json_to_amount_str(json.amt)
      parsed == parse_amount(amt_str[1], token.decimals)
      remaining == token.max_supply - token.minted
      amt == IF parsed[1] > remaining THEN remaining ELSE parsed[1]
      bal_key == BalKey(recipient, tick_lower)
  IN  IF tick_raw = None THEN db
      ELSE IF Len(tick_raw[1]) # 4 THEN db
      ELSE IF tick_lower \notin DOMAIN db.tok THEN db
      ELSE IF token.minted >= token.max_supply THEN db
      ELSE IF amt_str = None THEN db
      ELSE IF parsed = None THEN db
      ELSE IF parsed[1] = 0 THEN db
      ELSE IF parsed[1] > token.mint_limit THEN db
      ELSE [db EXCEPT
              !.bal = Insert(@, bal_key, GetOr0(@, bal_key) + amt),
              !.tok = Insert(@, tick_lower,
                             [token EXCEPT !.minted = @ + amt,
                                           !.mint_count = @ + 1])]

\* drc20_transfer_create that leaves the available balance as it was
drc20_transfer_create_NoDeduct(db, json, sender, outpoint) ==
  LET tick_raw == as_str(json.tick)
      tick_lower == to_lowercase(tick_raw[1])
      token == db.tok[tick_lower]
      amt_str == json_to_amount_str(json.amt)
      amt == parse_amount(amt_str[1], token.decimals)
      bal_key == BalKey(sender, tick_lower)
      avail == GetOr0(db.bal, bal_key)
      transfer == [tick |-> tick_lower, amount |-> amt[1], from_address |-> sender]
  IN  IF tick_raw = None THEN db
      ELSE IF Len(tick_raw[1]) # 4 THEN db
      ELSE IF tick_lower \notin DOMAIN db.tok THEN db
      ELSE IF amt_str = None THEN db
      ELSE IF amt = None THEN db
      ELSE IF amt[1] = 0 THEN db
      ELSE IF amt[1] > avail THEN db
      ELSE [db EXCEPT
              !.bal = Insert(@, bal_key, avail),
              !.trf = Insert(@, bal_key, GetOr0(@, bal_key) + amt[1]),
              !.pend = Insert(@, outpoint, transfer)]

\* drc20_transfer_create without the check of the available balance
drc20_transfer_create_NoBalanceCheck(db, json, sender, outpoint) ==
  LET tick_raw == as_str(json.tick)
      tick_lower == to_lowercase(tick_raw[1])
      token == db.tok[tick_lower]
      amt_str == json_to_amount_str(json.amt)
      amt == parse_amount(amt_str[1], token.decimals)
      bal_key == BalKey(sender, tick_lower)
      avail == GetOr0(db.bal, bal_key)
      transfer == [tick |-> tick_lower, amount |-> amt[1], from_address |-> sender]
  IN  IF tick_raw = None THEN db
      ELSE IF Len(tick_raw[1]) # 4 THEN db
      ELSE IF tick_lower \notin DOMAIN db.tok THEN db
      ELSE IF amt_str = None THEN db
      ELSE IF amt = None THEN db
      ELSE IF amt[1] = 0 THEN db
      ELSE [db EXCEPT
              !.bal = Insert(@, bal_key, SaturatingSub(avail, amt[1])),
              !.trf = Insert(@, bal_key, GetOr0(@, bal_key) + amt[1]),
              !.pend = Insert(@, outpoint, transfer)]

drc20_transfer_create(db, json, sender, outpoint) ==
  LET tick_raw == as_str(json.tick)
      tick_lower == to_lowercase(tick_raw[1])
      token == db.tok[tick_lower]
      amt_str == json_to_amount_str(json.amt)
      amt == parse_amount(amt_str[1], token.decimals)
      bal_key == BalKey(sender, tick_lower)
      avail == GetOr0(db.bal, bal_key)
      transfer == [tick |-> tick_lower, amount |-> amt[1], from_address |-> sender]
  IN  IF tick_raw = None THEN db
      ELSE IF Len(tick_raw[1]) # 4 THEN db
      ELSE IF tick_lower \notin DOMAIN db.tok THEN db
      ELSE IF amt_str = None THEN db
      ELSE IF amt = None THEN db
      ELSE IF amt[1] = 0 THEN db
      ELSE IF amt[1] > avail THEN db
      ELSE [db EXCEPT
              !.bal = Insert(@, bal_key, avail - amt[1]),
              !.trf = Insert(@, bal_key, GetOr0(@, bal_key) + amt[1]),
              !.pend = Insert(@, outpoint, transfer)]

TextPlain == <<"t", "e", "x", "t", "/", "p", "l", "a", "i", "n">>

ApplicationJson ==
  <<"a", "p", "p", "l", "i", "c", "a", "t", "i", "o", "n", "/", "j", "s", "o", "n">>

\* ParsedEnvelope::from_transaction: the envelopes of every input, inputs in
\* order; an envelope's offset is its index among the envelopes of its input
RECURSIVE EnvelopesOfInput(_, _, _)
EnvelopesOfInput(payloads, input_index, j) ==
  IF j > Len(payloads) THEN <<>>
  ELSE <<[input |-> input_index, offset |-> j - 1, payload |-> payloads[j]]>>
       \o EnvelopesOfInput(payloads, input_index, j + 1)

RECURSIVE FromInputs(_, _)
FromInputs(tx, i) ==
  IF i > Len(tx.input) THEN <<>>
  ELSE EnvelopesOfInput(tx.input[i].payloads, i - 1, 1) \o FromInputs(tx, i + 1)

from_transaction(tx) == FromInputs(tx, 1)

\* Step 2 of index_drc20_transaction for the envelope at position env_idx
\* (0-based) of ParsedEnvelope::from_transaction(tx)
ApplyEnvelope(db, tx, txid, envelope, env_idx, blk_time, h) ==
  LET content_type == envelope.payload.content_type
      body == envelope.payload.body
      json == body[1].json
      out_idx == envelope.offset
      addr == address_string_from_script(tx.output[out_idx + 1])
      inscription_id == <<txid, env_idx>>
      op == as_str(json.op)
  IN  IF content_type = None THEN db
      ELSE IF body = None THEN db
      ELSE IF ~StartsWith(content_type[1], TextPlain)
              /\ ~StartsWith(content_type[1], ApplicationJson) THEN db
      ELSE IF body[1].kind = "binary" THEN db
      ELSE IF body[1].kind # "json" THEN db
      ELSE IF as_str(json.p) # Some("drc-20") THEN db
      ELSE IF op = None THEN db
      ELSE IF out_idx >= Len(tx.output) THEN db
      ELSE IF addr = None THEN db
      ELSE IF op[1] = "deploy"
        THEN drc20_deploy(db, json, inscription_id, addr[1], blk_time, h)
      ELSE IF op[1] = "mint"
        THEN drc20_mint(db, json, addr[1])
      ELSE IF op[1] = "transfer"
        THEN drc20_transfer_create(db, json, addr[1], <<txid, out_idx>>)
      ELSE db

RECURSIVE ApplyEnvelopes(_, _, _, _, _, _, _)
ApplyEnvelopes(db, tx, txid, envelopes, env_idx, blk_time, h) ==
  IF env_idx >= Len(envelopes) THEN db
  ELSE ApplyEnvelopes(
         ApplyEnvelope(db, tx, txid, envelopes[env_idx + 1], env_idx, blk_time, h),
         tx, txid, envelopes, env_idx + 1, blk_time, h)

\* index_drc20_transaction that scans the envelopes before it completes the
\* pending transfers the inputs spend
index_drc20_transaction_EnvelopesFirst(db, tx, txid, blk_time, h) ==
  CompleteTransfers(ApplyEnvelopes(db, tx, txid, from_transaction(tx),
                                   0, blk_time, h), tx, 1)

index_drc20_transaction(db, tx, txid, blk_time, h) ==
  ApplyEnvelopes(CompleteTransfers(db, tx, 1), tx, txid, from_transaction(tx),
                 0, blk_time, h)

----------------------------------------------------------------------------
(* Inputs of the DRC-20 run: the transactions a block can carry *)

DOGI == <<"D", "O", "G", "I">>

dogi == <<"d", "o", "g", "i">>

WOOF == <<"W", "O", "O", "F">>

ScriptA == [kind |-> "p2pkh", hash |-> "h1"]

ScriptB == [kind |-> "p2sh", hash |-> "h2"]

OpReturn == [kind |-> "op_return", hash |-> "h0"]

AddrA == dogecoin_base58check(P2PKH_VERSION, "h1")

AddrB == dogecoin_base58check(P2SH_VERSION, "h2")

Addresses == {AddrA, AddrB}

Json(op, tick, amt, max, lim, dec) ==
  [p |-> JStr("drc-20"), op |-> JStr(op), tick |-> tick,
   amt |-> amt, max |-> max, lim |-> lim, dec |-> dec]

Payload(json) ==
  [content_type |-> Some(TextPlain), body |-> Some([kind |-> "json", json |-> json])]

Deploy100 ==
  Json("deploy", JStr(DOGI), Absent, JStr(<<"1", "0", "0">>), JStr(<<"5", "0">>), JNum(0))

Deploy80 == Json("deploy", JStr(dogi), Absent, JStr(<<"8", "0">>), Absent, JNum(0))

Mint50 == Json("mint", JStr(DOGI), JStr(<<"5", "0">>), Absent, Absent, Absent)

Mint80 == Json("mint", JStr(DOGI), JStr(<<"8", "0">>), Absent, Absent, Absent)

Transfer30 == Json("transfer", JStr(DOGI), JStr(<<"3", "0">>), Absent, Absent, Absent)

Transfer50 == Json("transfer", JStr(dogi), JNum(50), Absent, Absent, Absent)

Transfer0 == Json("transfer", JStr(DOGI), JStr(<<"0">>), Absent, Absent, Absent)

TransferWoof == Json("transfer", JStr(WOOF), JStr(<<"3", "0">>), Absent, Absent, Absent)

DeployJsons == {Deploy100, Deploy80}

Jsons == DeployJsons \cup {Mint50, Mint80, Transfer30, Transfer50, Transfer0, TransferWoof}

\* A JSON value that is neither a string nor a number
JBool == [t |-> "bool", v |-> <<>>]

\* Payloads that fail one of the checks of index_drc20_transaction or of the
\* handler of their op
NotUtf8 == [content_type |-> Some(TextPlain), body |-> Some([kind |-> "binary"])]

NotJson ==
  [content_type |-> Some(TextPlain),
   body |-> Some([kind |-> "text", text |-> <<"{", "p">>])]

MintNoTick == Json("mint", Absent, JStr(<<"5", "0">>), Absent, Absent, Absent)

MintLongTick ==
  Json("mint", JStr(<<"D", "O", "G", "I", "E">>), JStr(<<"5", "0">>), Absent, Absent, Absent)

MintNoAmt == Json("mint", JStr(DOGI), Absent, Absent, Absent, Absent)

MintBadAmt == Json("mint", JStr(DOGI), JStr(<<"-", "5">>), Absent, Absent, Absent)

TransferBadAmt == Json("transfer", JStr(DOGI), JStr(<<"3", ".">>), Absent, Absent, Absent)

DeployNoMax == Json("deploy", JStr(WOOF), Absent, Absent, JStr(<<"5", "0">>), JNum(0))

DeployBadMax == Json("deploy", JStr(WOOF), Absent, JStr(<<"1", ".", "5">>), Absent, JNum(0))

DeployBadLim ==
  Json("deploy", JStr(WOOF), Absent, JStr(<<"1", "0", "0">>), JStr(<<"+">>), JNum(0))

DeployLimNotAmount ==
  Json("deploy", JStr(WOOF), Absent, JStr(<<"1", "0", "0">>), JBool, JNum(0))

MalformedPayloads ==
  {NotUtf8, NotJson}
  \cup { Payload(j) : j \in {MintNoTick, MintLongTick, MintNoAmt, MintBadAmt,
                             TransferBadAmt, DeployNoMax, DeployBadMax,
                             DeployBadLim, DeployLimNotAmount} }

\* The payload lists one input can carry
OnePayload ==
  { <<Payload(j)>> : j \in Jsons } \cup { <<p>> : p \in MalformedPayloads }

TwoPayloads ==
  { <<Payload(j), Payload(k)>> : j, k \in {Mint50, Transfer30, Transfer50} }
  \cup { <<Payload(j), Payload(Mint50)>> : j \in DeployJsons }
  \cup { <<p, Payload(Mint50)>> : p \in MalformedPayloads }

OutputLists ==
  { <<>>, <<ScriptA>>, <<ScriptB>>, <<OpReturn>>,
    <<ScriptA, ScriptB>>, <<ScriptA, OpReturn>> }

\* Outpoints that hold no pending transfer
OtherOutpoint == <<0, 0>>

OtherOutpoint2 == <<0, 1>>

TxIn(prev, payloads) == [previous_output |-> prev, payloads |-> payloads]

\* One input, with at most two envelopes
OneInputLists(pend) ==
  { <<TxIn(prev, pl)>> :
      prev \in DOMAIN pend \cup {OtherOutpoint},
      pl \in {<<>>} \cup OnePayload \cup TwoPayloads }

\* Two inputs, each with at most one envelope of a transfer
TwoInputLists(pend) ==
  { <<TxIn(p1, pl1), TxIn(p2, pl2)>> :
      p1 \in DOMAIN pend \cup {OtherOutpoint},
      p2 \in DOMAIN pend \cup {OtherOutpoint2},
      pl1 \in {<<>>, <<Payload(Transfer30)>>},
      pl2 \in {<<>>, <<Payload(Transfer30)>>, <<Payload(Transfer50)>>} }

Transactions(pend) ==
  { [input |-> i, output |-> o] :
      i \in { l \in OneInputLists(pend) \cup TwoInputLists(pend) :
                \A a, b \in 1..Len(l) :
                  a # b => l[a].previous_output # l[b].previous_output },
      o \in OutputLists }

\* header.time of the block at height h
HeaderTime(h) == 1000 + 60 * h

----------------------------------------------------------------------------
(* The DRC-20 run: blocks of transactions indexed in order *)

Db == [tok |-> token_table, bal |-> balance_table, trf |-> transferable_table,
       pend |-> outpoint_to_transfer, ntok |-> drc20_tokens]

NoTx == <<>>

NoDb == <<>>

\* No coin range is being packed and no index_transaction_sats call is made
IdleSats ==
  /\ sat_range = <<>>
  /\ sat_value = <<>>
  /\ sat_loaded = <<>>
  /\ sat_tx = <<>>
  /\ sat_result = <<>>
  /\ sat_block = <<>>
  /\ sat_block_result = <<>>
  /\ amount_in = <<>>
  /\ amount_out = <<>>
  /\ batch_in = <<>>
  /\ batch_out = <<>>
  /\ serve_in = <<>>
  /\ serve_out = <<>>
  /\ epoch_in = <<>>
  /\ epoch_out = <<>>
  /\ shared_headers = <<>>
  /\ write_lock = <<>>
  /\ updaters = <<>>

\* No update_index of the block-source runs is under way
IdleSource ==
  /\ node_chain = <<>>
  /\ node_reorged = FALSE
  /\ blk_records = <<>>
  /\ fast_reader = <<>>
  /\ fetch_height = 0
  /\ fetch_ended = TRUE
  /\ rx = <<>>
  /\ delivered = <<>>
  /\ rpc_gave_up = FALSE
  /\ last_fetch = None
  /\ height_limit = <<>>
  /\ integration_test = FALSE
  /\ result = "none"
  /\ savepoints = <<>>
  /\ unrecoverably_reorged = FALSE
  /\ rolled_back = FALSE

\* index_utxo_entries has no block and the fetcher task has no request
IdlePrefetch ==
  /\ block_inputs = <<>>
  /\ requested = 0
  /\ outpoint_channel = <<>>
  /\ fetcher = "waiting"
  /\ outpoints = <<>>
  /\ txs = <<>>
  /\ send_index = 0
  /\ txout_channel = <<>>
  /\ lagged = FALSE
  /\ txouts = <<>>
  /\ main = "idle"
  /\ inputs_spent = 0
  /\ blocks_indexed = 0

IdleRest == IdleSats /\ IdleSource /\ IdlePrefetch

\* The ledgers before the first block
InitLedgers ==
  /\ height = 0
  /\ next_txid = 1
  /\ cur_tx = NoTx
  /\ pre = NoDb
  /\ token_table = EmptyTable
  /\ balance_table = EmptyTable
  /\ transferable_table = EmptyTable
  /\ outpoint_to_transfer = EmptyTable
  /\ drc20_tokens = 0
  /\ dns_name_to_entry = EmptyTable
  /\ dns_inscription_id_to_name = EmptyTable
  /\ dns_namespace_to_names = {}
  /\ dns_names = 0

\* No update_index is under way
IdleUpdater ==
  /\ chain = <<>>
  /\ store = <<>>
  /\ wtx = <<>>
  /\ utxo_cache = EmptyTable
  /\ uncommitted = 0
  /\ starting_index_height = 0
  /\ outputs_traversed = 0
  /\ sat_ranges_since_flush = 0
  /\ running = "no"
  /\ shutting_down = FALSE
  /\ commit_log = <<>>

InitDrc20 == InitLedgers /\ IdleUpdater /\ IdleRest

\* index_utxo_entries: the loop over block.txdata reaches the next
\* transaction and calls index_drc20_transaction for it
IndexDrc20Transaction ==
  /\ cur_tx = NoTx
  /\ next_txid <= MaxTx
  /\ \E tx \in Transactions(outpoint_to_transfer) :
       /\ cur_tx' = <<tx>>
       /\ \E db \in {index_drc20_transaction(Db, tx, next_txid,
                                             HeaderTime(height), height)} :
            /\ token_table' = db.tok
            /\ balance_table' = db.bal
            /\ transferable_table' = db.trf
            /\ outpoint_to_transfer' = db.pend
            /\ drc20_tokens' = db.ntok
  /\ pre' = <<Db>>
  /\ UNCHANGED <<height, next_txid>>
  /\ UNCHANGED dnsVars
  /\ UNCHANGED runVars
  /\ UNCHANGED restVars

\* index_utxo_entries: the loop body ends, the transaction's outputs go to
\* the cache and the loop moves on
FinishTransaction ==
  /\ cur_tx # NoTx
  /\ pre # NoDb
  /\ cur_tx' = NoTx
  /\ pre' = NoDb
  /\ next_txid' = next_txid + 1
  /\ UNCHANGED <<height, token_table, balance_table, transferable_table,
                 outpoint_to_transfer, drc20_tokens>>
  /\ UNCHANGED dnsVars
  /\ UNCHANGED runVars
  /\ UNCHANGED restVars

\* index_block ends: self.height += 1
NextBlock ==
  /\ cur_tx = NoTx
  /\ height < MaxHeight
  /\ height' = height + 1
  /\ UNCHANGED <<next_txid, cur_tx, pre, token_table, balance_table,
                 transferable_table, outpoint_to_transfer, drc20_tokens>>
  /\ UNCHANGED dnsVars
  /\ UNCHANGED runVars
  /\ UNCHANGED restVars

NextDrc20 ==
  IndexDrc20Transaction \/ FinishTransaction \/ NextBlock

SpecDrc20 == InitDrc20 /\ [][NextDrc20]_vars

----------------------------------------------------------------------------
(* Reading the DRC-20 tables *)

RECURSIVE SumOver(_, _)
SumOver(f, S) ==
  IF S = {} THEN 0
  ELSE LET x == CHOOSE y \in S : TRUE IN f[x] + SumOver(f, S \ {x})

\* Sum of a balance table's entries for one tick, over all addresses
TickTotal(f, tick) == SumOver(f, { key \in DOMAIN f : key[2] = tick })

\* Sum of the pending-transfer amounts recorded for (address, tick)
PendingTotal(pend, addr, tick) ==
  SumOver([o \in DOMAIN pend |-> pend[o].amount],
          { o \in DOMAIN pend : pend[o].from_address = addr /\ pend[o].tick = tick })

\* The last transaction has been indexed: pre[1] holds the tables before it,
\* the table variables hold them after it
Indexed == cur_tx # NoTx /\ pre # NoDb

NoPendingInput(tx, db) ==
  \A i \in 1..Len(tx.input) : tx.input[i].previous_output \notin DOMAIN db.pend

\* The transaction carries exactly one envelope, a DRC-20 operation op
OnlyEnvelopeIs(tx, op) ==
  /\ Len(from_transaction(tx)) = 1
  /\ LET payload == from_transaction(tx)[1].payload
     IN  /\ payload.content_type # None
         /\ payload.body # None
         /\ payload.body[1].kind = "json"
         /\ payload.body[1].json.p = JStr("drc-20")
         /\ payload.body[1].json.op = JStr(op)

OnlyJson(tx) == from_transaction(tx)[1].payload.body[1].json

\* Address of the output the only envelope is bound to, None when there is none
OnlyAddr(tx) ==
  LET out_idx == from_transaction(tx)[1].offset
  IN  IF out_idx < Len(tx.output)
      THEN address_string_from_script(tx.output[out_idx + 1])
      ELSE None

\* Amount field of the only envelope, parsed with the token's decimals
OnlyAmt(tx, db) ==
  LET json == OnlyJson(tx)
      str == json_to_amount_str(json.amt)
      tick == to_lowercase(json.tick.v)
  IN  IF str = None \/ tick \notin DOMAIN db.tok THEN None
      ELSE parse_amount(str[1], db.tok[tick].decimals)

OnlyTick(tx) == to_lowercase(OnlyJson(tx).tick.v)

----------------------------------------------------------------------------
(* C2 *)

\* C2: after any sequence of DRC-20 operations every token has
\* minted <= max_supply, and the available plus transferable balances of all
\* addresses for its tick add up to minted.
C2_SupplyConserved ==
  \A tick \in DOMAIN token_table :
    /\ token_table[tick].minted <= token_table[tick].max_supply
    /\ TickTotal(balance_table, tick) + TickTotal(transferable_table, tick)
         = token_table[tick].minted

\* A pending transfer has just been spent into an output with no address
C2_Witness ==
  /\ Indexed
  /\ \E i \in 1..Len(cur_tx[1].input) :
       cur_tx[1].input[i].previous_output \in DOMAIN pre[1].pend
  /\ Len(cur_tx[1].output) > 0
  /\ address_string_from_script(cur_tx[1].output[1]) = None
  /\ \E tick \in DOMAIN token_table : token_table[tick].minted > 0

----------------------------------------------------------------------------
(* C3 *)

\* C3: for every (address, tick) pair the transferable balance equals the sum
\* of the amounts of the pending transfers recorded for that pair.
C3_TransferableIsPending ==
  \A key \in DOMAIN transferable_table \cup
             { BalKey(outpoint_to_transfer[o].from_address, outpoint_to_transfer[o].tick) :
                 o \in DOMAIN outpoint_to_transfer } :
    GetOr0(transferable_table, key)
      = PendingTotal(outpoint_to_transfer, key[1], key[2])

----------------------------------------------------------------------------
(* C4 *)

Token100(minted, mint_count) ==
  \E t \in {token_table[dogi]} :
    /\ t.tick = DOGI /\ t.max_supply = 100 /\ t.mint_limit = 50 /\ t.decimals = 0
    /\ t.minted = minted /\ t.mint_count = mint_count

\* Scenario A up to its last step: DOGI was deployed with max 100, lim 50,
\* dec 0, 50 were minted to address b, and the transaction just indexed is a
\* mint of 80 to address c
ScenarioA(b, c) ==
  /\ Indexed
  /\ b # c
  /\ DOMAIN pre[1].tok = {dogi}
  /\ \E t \in {pre[1].tok[dogi]} :
       /\ t.tick = DOGI /\ t.max_supply = 100 /\ t.mint_limit = 50 /\ t.decimals = 0
       /\ t.minted = 50 /\ t.mint_count = 1
  /\ GetOr0(pre[1].bal, BalKey(b, dogi)) = 50
  /\ GetOr0(pre[1].bal, BalKey(c, dogi)) = 0
  /\ NoPendingInput(cur_tx[1], pre[1])
  /\ OnlyEnvelopeIs(cur_tx[1], "mint")
  /\ OnlyJson(cur_tx[1]) = Mint80
  /\ OnlyAddr(cur_tx[1]) = Some(c)

\* C4 as stated: after Scenario A the token has minted = 100 and
\* mint_count = 2, and b and c each hold 50.
C4_ScenarioA_AsStated ==
  \A b, c \in Addresses :
    ScenarioA(b, c) =>
      /\ Token100(100, 2)
      /\ GetOr0(balance_table, BalKey(b, dogi)) = 50
      /\ GetOr0(balance_table, BalKey(c, dogi)) = 50

\* C4 (amended): in Scenario A the mint of 80 exceeds the mint limit of 50 and
\* is rejected: the token keeps minted = 50 and mint_count = 1, b holds 50 and
\* c holds nothing.
C4_ScenarioA ==
  \A b, c \in Addresses :
    ScenarioA(b, c) =>
      /\ Token100(50, 1)
      /\ GetOr0(balance_table, BalKey(b, dogi)) = 50
      /\ GetOr0(balance_table, BalKey(c, dogi)) = 0

C4_Witness == \E b, c \in Addresses : ScenarioA(b, c)

----------------------------------------------------------------------------
(* C5 *)

\* The transaction just indexed carries one transfer inscription, bound to an
\* output with an address, for a deployed tick, with an amount that parses,
\* and spends no pending transfer
TransferInscribed ==
  /\ Indexed
  /\ NoPendingInput(cur_tx[1], pre[1])
  /\ OnlyEnvelopeIs(cur_tx[1], "transfer")
  /\ OnlyAddr(cur_tx[1]) # None
  /\ OnlyTick(cur_tx[1]) \in DOMAIN pre[1].tok
  /\ OnlyAmt(cur_tx[1], pre[1]) # None

\* Sender, key and amount of that inscription
Sender == OnlyAddr(cur_tx[1])[1]

SenderKey == BalKey(Sender, OnlyTick(cur_tx[1]))

Amt == OnlyAmt(cur_tx[1], pre[1])[1]

\* The outpoint the only envelope is bound to
OnlyOutpoint == <<next_txid, from_transaction(cur_tx[1])[1].offset>>

TransferCreated ==
  /\ GetOr0(balance_table, SenderKey) = GetOr0(pre[1].bal, SenderKey) - Amt
  /\ GetOr0(transferable_table, SenderKey) = GetOr0(pre[1].trf, SenderKey) + Amt
  /\ OnlyOutpoint \in DOMAIN outpoint_to_transfer
  /\ outpoint_to_transfer[OnlyOutpoint]
       = [tick |-> OnlyTick(cur_tx[1]), amount |-> Amt, from_address |-> Sender]

\* The transaction just indexed carries no envelope and spends exactly one
\* outpoint that held a pending transfer
SpentPending ==
  /\ Indexed
  /\ from_transaction(cur_tx[1]) = <<>>
  /\ Cardinality({ i \in 1..Len(cur_tx[1].input) :
                     cur_tx[1].input[i].previous_output \in DOMAIN pre[1].pend }) = 1

\* That outpoint and the pending transfer it held
SpentOutpoint ==
  cur_tx[1].input[CHOOSE i \in 1..Len(cur_tx[1].input) :
                    cur_tx[1].input[i].previous_output \in DOMAIN pre[1].pend
                 ].previous_output

Spent == pre[1].pend[SpentOutpoint]

FromKey == BalKey(Spent.from_address, Spent.tick)

\* Address of output 0 of the transaction just indexed, None when it has none
Output0Addr ==
  IF Len(cur_tx[1].output) > 0
  THEN address_string_from_script(cur_tx[1].output[1])
  ELSE None

ToKey == BalKey(Output0Addr[1], Spent.tick)

\* C5 as stated: a transfer inscription of amount amt <= available moves amt
\* from a's available to a's transferable and records the pending transfer;
\* spending the outpoint to an output 0 of address b adds amt to b's
\* available, takes amt from a's transferable, leaves a's available unchanged
\* and removes the pending entry.
C5_RoundTrip_AsStated ==
  /\ (TransferInscribed /\ Amt <= GetOr0(pre[1].bal, SenderKey)) => TransferCreated
  /\ (SpentPending /\ Output0Addr # None) =>
       /\ GetOr0(balance_table, ToKey) = GetOr0(pre[1].bal, ToKey) + Spent.amount
       /\ GetOr0(transferable_table, FromKey)
            = GetOr0(pre[1].trf, FromKey) - Spent.amount
       /\ GetOr0(balance_table, FromKey) = GetOr0(pre[1].bal, FromKey)
       /\ SpentOutpoint \notin DOMAIN outpoint_to_transfer

\* C5 (amended): the same for amt > 0, and the spend leaves a's available
\* unchanged when b is another address; when b = a it grows by amt.
C5_RoundTrip ==
  /\ (TransferInscribed /\ 0 < Amt /\ Amt <= GetOr0(pre[1].bal, SenderKey))
       => TransferCreated
  /\ (SpentPending /\ Output0Addr # None) =>
       /\ GetOr0(balance_table, ToKey) = GetOr0(pre[1].bal, ToKey) + Spent.amount
       /\ GetOr0(transferable_table, FromKey)
            = GetOr0(pre[1].trf, FromKey) - Spent.amount
       /\ GetOr0(balance_table, FromKey)
            = GetOr0(pre[1].bal, FromKey)
              + (IF ToKey = FromKey THEN Spent.amount ELSE 0)
       /\ SpentOutpoint \notin DOMAIN outpoint_to_transfer

\* A pending transfer recorded for a has just been spent to another address b
C5_Witness ==
  /\ SpentPending
  /\ Output0Addr # None
  /\ Output0Addr[1] # Spent.from_address
  /\ Spent.amount > 0
  /\ GetOr0(balance_table, ToKey) > 0

----------------------------------------------------------------------------
(* C6 *)

\* C6: when a pending transfer (tick, amt, a) is spent into an output 0 with
\* no decodable address, a's transferable is reduced by amt, a's available is
\* unchanged, no address is credited and the pending entry is removed.
C6_BurnDebitsSender ==
  (SpentPending /\ Len(cur_tx[1].output) > 0 /\ Output0Addr = None) =>
    /\ GetOr0(transferable_table, FromKey)
         = GetOr0(pre[1].trf, FromKey) - Spent.amount
    /\ balance_table = pre[1].bal
    /\ SpentOutpoint \notin DOMAIN outpoint_to_transfer

----------------------------------------------------------------------------
(* C21 *)

\* The pending transfer just spent went to no address: the transaction has no
\* output, or its output 0 has no decodable address
Burned == SpentPending /\ Output0Addr = None

\* C21: when an outpoint holding a pending transfer is spent in a transaction
\* whose output 0 has no decodable address, or that has no outputs, the
\* sender's available and transferable balances and every other balance are
\* left unchanged; the only change is the removal of the pending-transfer
\* entry.
C21_BurnOnlyRemovesPending ==
  Burned =>
    /\ balance_table = pre[1].bal
    /\ transferable_table = pre[1].trf
    /\ token_table = pre[1].tok
    /\ drc20_tokens = pre[1].ntok
    /\ outpoint_to_transfer = Remove(pre[1].pend, SpentOutpoint)

\* A pending transfer of a positive amount, counted in its sender's
\* transferable balance, has just been spent into an OP_RETURN output
C21_Witness ==
  /\ Burned
  /\ Len(cur_tx[1].output) > 0
  /\ Spent.amount > 0
  /\ GetOr0(pre[1].trf, FromKey) >= Spent.amount

----------------------------------------------------------------------------
(* C22 *)

\* The transaction indexed by this step carries a mint inscription for tick
MintsTick(tx, tick) ==
  \E k \in 1..Len(from_transaction(tx)) :
    LET payload == from_transaction(tx)[k].payload
    IN  /\ payload.body # None
        /\ payload.body[1].kind = "json"
        /\ payload.body[1].json.op = JStr("mint")
        /\ to_lowercase(payload.body[1].json.tick.v) = tick

\* Everything of a token but minted and mint_count
Deployment(token) ==
  [tick |-> token.tick, max_supply |-> token.max_supply,
   mint_limit |-> token.mint_limit, decimals |-> token.decimals,
   deployer |-> token.deployer, deploy_inscription |-> token.deploy_inscription,
   deploy_height |-> token.deploy_height,
   deploy_timestamp |-> token.deploy_timestamp]

\* C22: once a token is deployed, no later deploy, mint, transfer inscription
\* or transfer spend changes its tick, max_supply, mint_limit, decimals,
\* deployer, deploy inscription, deploy height or deploy timestamp; only a
\* successful mint changes minted and mint_count, both never decrease, and a
\* token is never removed.
C22_TokenImmutable ==
  [][\A tick \in DOMAIN token_table :
       /\ tick \in DOMAIN token_table'
       /\ Deployment(token_table'[tick]) = Deployment(token_table[tick])
       /\ token_table'[tick].minted >= token_table[tick].minted
       /\ token_table'[tick].mint_count >= token_table[tick].mint_count
       /\ token_table'[tick] # token_table[tick] =>
            /\ cur_tx' # NoTx
            /\ MintsTick(cur_tx'[1], tick)
            /\ token_table'[tick].minted > token_table[tick].minted
            /\ token_table'[tick].mint_count > token_table[tick].mint_count]_vars

\* A token that has been minted is named by a second deploy with another
\* max, and its record still holds the first deploy's max
C22_Witness ==
  /\ Indexed
  /\ \E k \in 1..Len(from_transaction(cur_tx[1])) :
       LET payload == from_transaction(cur_tx[1])[k].payload
           json == payload.body[1].json
           tick == to_lowercase(json.tick.v)
       IN  /\ payload.body # None
           /\ payload.body[1].kind = "json"
           /\ json.op = JStr("deploy")
           /\ tick \in DOMAIN pre[1].tok
           /\ pre[1].tok[tick].minted > 0
           /\ parse_amount(json.max.v, 0) # Some(pre[1].tok[tick].max_supply)
           /\ OnlyAddr(cur_tx[1]) # None
           /\ token_table[tick] = pre[1].tok[tick]

----------------------------------------------------------------------------
(* C7 *)

\* The transaction just indexed carries one mint, bound to an output with an
\* address, for a deployed tick, with an amount that parses, and spends no
\* pending transfer
MintInscribed ==
  /\ Indexed
  /\ NoPendingInput(cur_tx[1], pre[1])
  /\ OnlyEnvelopeIs(cur_tx[1], "mint")
  /\ OnlyAddr(cur_tx[1]) # None
  /\ OnlyTick(cur_tx[1]) \in DOMAIN pre[1].tok
  /\ OnlyAmt(cur_tx[1], pre[1]) # None

\* The token the mint names, before the mint
OldToken == pre[1].tok[OnlyTick(cur_tx[1])]

\* A mint the rules accept
MintAccepted ==
  /\ MintInscribed
  /\ 0 < Amt
  /\ Amt <= OldToken.mint_limit
  /\ OldToken.minted < OldToken.max_supply

\* C7: a mint of amt with 0 < amt <= mint_limit on a token with
\* minted < max_supply credits min(amt, max_supply - minted) to the
\* destination's available balance, adds it to minted and adds 1 to
\* mint_count; when amt exceeds the remaining supply, minted ends at max_supply.
C7_MintCredits ==
  MintAccepted =>
    LET credit == Min(Amt, OldToken.max_supply - OldToken.minted)
        new == token_table[OnlyTick(cur_tx[1])]
    IN  /\ GetOr0(balance_table, SenderKey) = GetOr0(pre[1].bal, SenderKey) + credit
        /\ new.minted = OldToken.minted + credit
        /\ new.mint_count = OldToken.mint_count + 1
        /\ (Amt > OldToken.max_supply - OldToken.minted
              => new.minted = OldToken.max_supply)

\* A mint larger than the remaining supply has just been indexed
C7_Witness ==
  /\ MintAccepted
  /\ Amt > OldToken.max_supply - OldToken.minted
  /\ token_table[OnlyTick(cur_tx[1])].minted = OldToken.max_supply

----------------------------------------------------------------------------
(* C8 *)

\* The transaction just indexed carries one deploy whose tick lowercases to an
\* already deployed tick
DuplicateDeploy ==
  /\ Indexed
  /\ OnlyEnvelopeIs(cur_tx[1], "deploy")
  /\ OnlyTick(cur_tx[1]) \in DOMAIN pre[1].tok

\* C8: a deploy whose tick lowercases to an already deployed tick leaves the
\* stored token entry unchanged and does not increment the token counter.
C8_FirstDeployWins ==
  DuplicateDeploy =>
    /\ token_table = pre[1].tok
    /\ drc20_tokens = pre[1].ntok

\* The duplicate spells the tick in another case and asks for another supply
C8_Witness ==
  /\ DuplicateDeploy
  /\ OnlyAddr(cur_tx[1]) # None
  /\ OnlyJson(cur_tx[1]).tick.v # OldToken.tick
  /\ parse_amount(OnlyJson(cur_tx[1]).max.v, 0) # Some(OldToken.max_supply)

----------------------------------------------------------------------------
(* C9 *)

\* The transaction just indexed carries one transfer inscription and spends
\* no pending transfer
OnlyTransfer ==
  /\ Indexed
  /\ NoPendingInput(cur_tx[1], pre[1])
  /\ OnlyEnvelopeIs(cur_tx[1], "transfer")

TransferChangedNothing ==
  /\ balance_table = pre[1].bal
  /\ transferable_table = pre[1].trf
  /\ outpoint_to_transfer = pre[1].pend

\* C9: a transfer inscription whose tick is not deployed, whose amt is 0, or
\* whose amt exceeds the sender's available balance changes no available
\* balance, no transferable balance and no pending-transfer entry.
C9_RejectedTransfer ==
  OnlyTransfer =>
    /\ OnlyTick(cur_tx[1]) \notin DOMAIN pre[1].tok => TransferChangedNothing
    /\ OnlyAmt(cur_tx[1], pre[1]) = Some(0) => TransferChangedNothing
    /\ (TransferInscribed /\ Amt > GetOr0(pre[1].bal, SenderKey))
         => TransferChangedNothing

\* A transfer of more than the sender's non-zero available balance has just
\* been indexed
C9_Witness ==
  /\ TransferInscribed
  /\ GetOr0(pre[1].bal, SenderKey) > 0
  /\ Amt > GetOr0(pre[1].bal, SenderKey)

----------------------------------------------------------------------------
(* C18 *)

\* The amount field v is missing, is not an amount, or is zero at dec decimals
InvalidAmount(v, dec) ==
  LET str == json_to_amount_str(v)
  IN  \/ str = None
      \/ parse_amount(str[1], dec) = None
      \/ parse_amount(str[1], dec) = Some(0)

\* Decimals the amounts of a DRC-20 operation are read with: the dec field
\* for a deploy, the deployed token's decimals for a mint or a transfer
AmountDecimals(db, json) ==
  LET dec_opt == as_u64(json.dec)
      tick == to_lowercase(json.tick.v)
  IN  IF json.op = JStr("deploy")
      THEN Min(IF dec_opt = None THEN 8 ELSE dec_opt[1], 18)
      ELSE IF tick \in DOMAIN db.tok THEN db.tok[tick].decimals ELSE 0

\* The envelope is a malformed protocol payload: its body is not UTF-8 or not
\* JSON, or it is a DRC-20 operation whose tick, amt, max or lim is missing
\* where required or invalid, or whose output is missing or has no address
Malformed(db, tx, envelope) ==
  LET payload == envelope.payload
      body == payload.body[1]
      json == body.json
      dec == AmountDecimals(db, json)
  IN  /\ payload.content_type # None
      /\ payload.body # None
      /\ \/ body.kind = "binary"
         \/ body.kind = "text"
         \/ /\ body.kind = "json"
            /\ json.p = JStr("drc-20")
            /\ json.op \in {JStr("deploy"), JStr("mint"), JStr("transfer")}
            /\ \/ as_str(json.tick) = None
               \/ Len(json.tick.v) # 4
               \/ json.op = JStr("deploy") /\ InvalidAmount(json.max, dec)
               \/ /\ json.op = JStr("deploy")
                  /\ json.lim # Absent
                  /\ InvalidAmount(json.lim, dec)
               \/ json.op # JStr("deploy") /\ InvalidAmount(json.amt, dec)
               \/ envelope.offset >= Len(tx.output)
               \/ address_string_from_script(tx.output[envelope.offset + 1]) = None

\* The tables as step 2 of index_drc20_transaction finds them when it reaches
\* the envelope at position env_idx (0-based) of the transaction just indexed
TablesBefore(env_idx) ==
  CHOOSE r \in { ApplyEnvelopes(db, cur_tx[1], next_txid,
                                 SubSeq(from_transaction(cur_tx[1]), 1, env_idx),
                                 0, HeaderTime(height), height) :
                   db \in {CompleteTransfers(pre[1], cur_tx[1], 1)} } : TRUE

\* The tables after the envelope at position env_idx has been handled
TablesAfter(env_idx) ==
  CHOOSE r \in { ApplyEnvelope(db, cur_tx[1], next_txid,
                                from_transaction(cur_tx[1])[env_idx + 1],
                                env_idx, HeaderTime(height), height) :
                   db \in {TablesBefore(env_idx)} } : TRUE

MalformedAt(env_idx) ==
  Malformed(TablesBefore(env_idx), cur_tx[1],
            from_transaction(cur_tx[1])[env_idx + 1])

\* C18: a malformed protocol payload is never fatal: the DRC-20 updater
\* leaves every DRC-20 table as it was for an envelope whose body is not
\* UTF-8 or not JSON, whose tick, amt, max or lim is missing or invalid, or
\* whose output is missing or has no decodable address, and it goes on to
\* the next envelope, so that the tables after the transaction are the result
\* of handling the last envelope.
C18_MalformedIgnored ==
  Indexed =>
    LET n == Len(from_transaction(cur_tx[1]))
    IN  /\ \A env_idx \in 0..(n - 1) :
             MalformedAt(env_idx) => TablesAfter(env_idx) = TablesBefore(env_idx)
        /\ Db = TablesBefore(n)

----------------------------------------------------------------------------
(* The Dogecoin Name System registrar *)

\* subcommand::dns::is_valid_dns_namespace: the allow-list of suffixes
ValidNamespaces ==
  {
    <<"d", "o", "g", "e">>,
    <<"d", "o", "g", "e", "c", "o", "i", "n">>,
    <<"s", "h", "i", "b", "e">>,
    <<"s", "h", "i", "b">>,
    <<"w", "o", "w">>,
    <<"v", "e", "r", "y">>,
    <<"s", "u", "c", "h">>,
    <<"m", "u", "c", "h">>,
    <<"e", "x", "c", "i", "t", "e">>,
    <<"w", "o", "o", "f">>,
    <<"b", "a", "r", "k">>,
    <<"t", "a", "i", "l">>,
    <<"p", "a", "w", "s">>,
    <<"p", "a", "w">>,
    <<"m", "o", "o", "n">>,
    <<"k", "a", "b", "o", "s", "u">>,
    <<"c", "h", "e", "e", "m", "s">>,
    <<"i", "n", "u">>,
    <<"c", "o", "o", "k">>,
    <<"d", "o", "g", "g", "o">>,
    <<"b", "o", "o", "p">>,
    <<"z", "o", "o", "m", "i", "e", "s">>,
    <<"s", "m", "o", "l">>,
    <<"s", "n", "o", "o", "t">>,
    <<"p", "u", "p", "p", "e", "r">>,
    <<"o", "f", "f", "i", "c", "i", "a", "l">>
  }

\* an allow-list that is matched without regard to case
is_valid_dns_namespace_IgnoreCase(namespace) ==
  to_lowercase(namespace) \in ValidNamespaces

is_valid_dns_namespace(namespace) == namespace \in ValidNamespaces

\* str::split('.'): the parts of s between the dots, from position i on, the
\* part being read so far in cur
RECURSIVE SplitDot(_, _, _)
SplitDot(s, i, cur) ==
  IF i > Len(s) THEN <<cur>>
  ELSE IF s[i] = "." THEN <<cur>> \o SplitDot(s, i + 1, <<>>)
  ELSE SplitDot(s, i + 1, Append(cur, s[i]))

split_dot(s) == SplitDot(s, 1, <<>>)

\* std::str::from_utf8(body): None when the bytes are not UTF-8. The JSON
\* bodies of the model are UTF-8 texts without a dot, read here as "{}"
from_utf8(body) ==
  IF body.kind = "text" THEN Some(body.text)
  ELSE IF body.kind = "json" THEN Some(<<"{", "}">>)
  ELSE None

DnsDb == [entry |-> dns_name_to_entry, byid |-> dns_inscription_id_to_name,
          byns |-> dns_namespace_to_names, count |-> dns_names]

\* index_dns_transaction registering regardless of an earlier registration
RegisterName_Overwrite(db, envelope, envelope_index, txid, number, blk_time, h) ==
  LET body == envelope.payload.body
      text == from_utf8(body[1])
      name == Trim(text[1])
      parts == split_dot(name)
      namespace == parts[2]
      inscription_id == <<txid, envelope_index>>
      entry == [name |-> name,
                owner_inscription_id |-> inscription_id,
                owner_inscription_number |-> number,
                height |-> h,
                timestamp |-> blk_time,
                fee |-> 0,
                address |-> None,
                avatar |-> None,
                reverse |-> None]
  IN  IF body = None THEN db
      ELSE IF text = None THEN db
      ELSE IF Len(parts) # 2 \/ parts[1] = <<>> \/ parts[2] = <<>> THEN db
      ELSE IF ~is_valid_dns_namespace(namespace) THEN db
      ELSE [db EXCEPT
              !.entry = Insert(@, name, entry),
              !.byid = Insert(@, inscription_id, name),
              !.byns = @ \cup {<<namespace, name>>},
              !.count = @ + 1]

\* The body of the loop of index_dns_transaction for the envelope at position
\* envelope_index (0-based); number is what the inscription-number tables
\* hold for the inscription (0 when they hold nothing)
RegisterName(db, envelope, envelope_index, txid, number, blk_time, h) ==
  LET body == envelope.payload.body
      text == from_utf8(body[1])
      name == Trim(text[1])
      parts == split_dot(name)
      namespace == parts[2]
      inscription_id == <<txid, envelope_index>>
      entry == [name |-> name,
                owner_inscription_id |-> inscription_id,
                owner_inscription_number |-> number,
                height |-> h,
                timestamp |-> blk_time,
                fee |-> 0,
                address |-> None,
                avatar |-> None,
                reverse |-> None]
  IN  IF body = None THEN db
      ELSE IF text = None THEN db
      ELSE IF Len(parts) # 2 \/ parts[1] = <<>> \/ parts[2] = <<>> THEN db
      ELSE IF ~is_valid_dns_namespace(namespace) THEN db
      ELSE IF name \in DOMAIN db.entry THEN db
      ELSE [db EXCEPT
              !.entry = Insert(@, name, entry),
              !.byid = Insert(@, inscription_id, name),
              !.byns = @ \cup {<<namespace, name>>},
              !.count = @ + 1]

RECURSIVE RegisterNames(_, _, _, _, _, _, _)
RegisterNames(db, envelopes, envelope_index, txid, numbers, blk_time, h) ==
  IF envelope_index >= Len(envelopes) THEN db
  ELSE RegisterNames(
         RegisterName(db, envelopes[envelope_index + 1], envelope_index, txid,
                      numbers[envelope_index + 1], blk_time, h),
         envelopes, envelope_index + 1, txid, numbers, blk_time, h)

index_dns_transaction(db, tx, txid, blk_time, h) ==
  RegisterNames(db, from_transaction(tx), 0, txid, tx.numbers, blk_time, h)

----------------------------------------------------------------------------
(* Inputs of the DNS run *)

AliceDoge == <<"a", "l", "i", "c", "e", ".", "d", "o", "g", "e">>

AliceDogePadded == <<" ", "a", "l", "i", "c", "e", ".", "d", "o", "g", "e", " ">>

BobWow == <<"b", "o", "b", ".", "w", "o", "w">>

AliceCat == <<"a", "l", "i", "c", "e", ".", "c", "a", "t">>

SubAliceDoge == <<"a", ".", "a", "l", "i", "c", "e", ".", "d", "o", "g", "e">>

NoLabel == <<".", "d", "o", "g", "e">>

NoNamespace == <<"a", "l", "i", "c", "e", ".">>

AliceDOGE == <<"a", "l", "i", "c", "e", ".", "D", "O", "G", "E">>

NoDot == <<"a", "l", "i", "c", "e">>

TextBody(text) ==
  [content_type |-> Some(TextPlain), body |-> Some([kind |-> "text", text |-> text])]

BinaryBody == [content_type |-> None, body |-> Some([kind |-> "binary"])]

NoBody == [content_type |-> Some(TextPlain), body |-> None]

ImagePng == <<"i", "m", "a", "g", "e", "/", "p", "n", "g">>

\* An envelope whose content-type is neither text/plain* nor application/json
\* and whose body is the UTF-8 text of a name
PngBody(text) ==
  [content_type |-> Some(ImagePng), body |-> Some([kind |-> "text", text |-> text])]

DnsPayloads ==
  { TextBody(t) : t \in {AliceDoge, AliceDogePadded, BobWow, AliceCat,
                         SubAliceDoge, NoLabel, NoNamespace, AliceDOGE, NoDot} }
  \cup {BinaryBody, NoBody, PngBody(AliceDoge)}

\* Inscription numbers the inscription-number tables can hold for an
\* inscription of the transaction; 0 also stands for no entry
InscriptionNumbers == {0, 1}

\* One input with at most two envelopes, or two inputs with one envelope each
DnsInputLists ==
  { <<TxIn(OtherOutpoint, pl)>> :
      pl \in {<<>>} \cup { <<p>> : p \in DnsPayloads }
             \cup { <<p, q>> : p, q \in DnsPayloads } }
  \cup { <<TxIn(OtherOutpoint, <<p>>), TxIn(OtherOutpoint2, <<q>>)>> :
           p, q \in {TextBody(AliceDoge), TextBody(AliceDogePadded), TextBody(BobWow)} }

DnsTransactions ==
  { [input |-> i, output |-> <<ScriptA>>, numbers |-> n] :
      i \in DnsInputLists,
      n \in { <<a, b>> : a, b \in InscriptionNumbers } }

----------------------------------------------------------------------------
(* The DNS run: blocks of transactions indexed in order *)

InitDns == InitDrc20

\* index_utxo_entries: the loop over block.txdata reaches the next
\* transaction and calls index_dns_transaction for it
IndexDnsTransaction ==
  /\ cur_tx = NoTx
  /\ next_txid <= MaxTx
  /\ \E tx \in DnsTransactions :
       /\ cur_tx' = <<tx>>
       /\ \E db \in {index_dns_transaction(DnsDb, tx, next_txid,
                                           HeaderTime(height), height)} :
            /\ dns_name_to_entry' = db.entry
            /\ dns_inscription_id_to_name' = db.byid
            /\ dns_namespace_to_names' = db.byns
            /\ dns_names' = db.count
  /\ pre' = <<DnsDb>>
  /\ UNCHANGED <<height, next_txid, token_table, balance_table,
                 transferable_table, outpoint_to_transfer, drc20_tokens>>
  /\ UNCHANGED runVars
  /\ UNCHANGED restVars

NextDns ==
  IndexDnsTransaction \/ FinishTransaction \/ NextBlock

SpecDns == InitDns /\ [][NextDns]_vars

----------------------------------------------------------------------------
(* C10 *)

\* The name an envelope carries: its body as text, trimmed; None when it has
\* no body or the body is not UTF-8
CarriedName(envelope) ==
  IF envelope.payload.body = None THEN None
  ELSE IF from_utf8(envelope.payload.body[1]) = None THEN None
  ELSE Some(Trim(from_utf8(envelope.payload.body[1])[1]))

\* The transaction just indexed carries an inscription with this name
Carries(name) ==
  \E i \in 1..Len(from_transaction(cur_tx[1])) :
    CarriedName(from_transaction(cur_tx[1])[i]) = Some(name)

\* C10: a transaction carrying the name of an already registered entry leaves
\* that entry (owner inscription, height, timestamp) unchanged and does not
\* count it again; every registered name is listed exactly once in the
\* namespace listing, and the DNS name counter equals the number of
\* registered names.
C10_FirstSeenWins ==
  /\ Indexed =>
       \A name \in DOMAIN pre[1].entry :
         /\ name \in DOMAIN dns_name_to_entry
         /\ dns_name_to_entry[name] = pre[1].entry[name]
         /\ (Carries(name) /\ DOMAIN dns_name_to_entry = DOMAIN pre[1].entry)
              => dns_names = pre[1].count
  /\ \A name \in DOMAIN dns_name_to_entry :
       Cardinality({ pair \in dns_namespace_to_names : pair[2] = name }) = 1
  /\ dns_names = Cardinality(DOMAIN dns_name_to_entry)

\* A registered name has just been inscribed again, in a later block, by an
\* inscription with another number
C10_Witness ==
  /\ Indexed
  /\ \E i \in 1..Len(from_transaction(cur_tx[1])) :
       \E name \in DOMAIN pre[1].entry :
         /\ CarriedName(from_transaction(cur_tx[1])[i]) = Some(name)
         /\ pre[1].entry[name].height < height
         /\ pre[1].entry[name].owner_inscription_number # cur_tx[1].numbers[i]
         /\ dns_name_to_entry[name].owner_inscription_id[1] < next_txid
         /\ dns_names = 1

----------------------------------------------------------------------------
(* C30 *)

\* the positions of the dots of a name
Dots(name) == { i \in 1..Len(name) : name[i] = "." }

\* label.namespace: exactly one dot, a label before it, and after it a
\* namespace that is on the allow-list as it is written
WellFormed(name) ==
  /\ Cardinality(Dots(name)) = 1
  /\ \E d \in Dots(name) :
       /\ d > 1
       /\ d < Len(name)
       /\ SubSeq(name, d + 1, Len(name)) \in ValidNamespaces

\* the names the envelopes of the transaction just indexed carry
CarriedNames ==
  { CarriedName(from_transaction(cur_tx[1])[i])[1] :
      i \in { j \in 1..Len(from_transaction(cur_tx[1])) :
                 CarriedName(from_transaction(cur_tx[1])[j]) # None } }

\* C30: a DNS name is registered only when the envelope body, decoded as
\* UTF-8 and trimmed, has exactly one dot with a non-empty label before it
\* and a non-empty namespace after it, and the namespace is an exact,
\* case-sensitive match of an allow-list entry; every other body leaves the
\* DNS name table, the namespace listing and the DNS name counter unchanged.
C30_OnlyWellFormedNames ==
  Indexed =>
    /\ \A name \in DOMAIN dns_name_to_entry \ DOMAIN pre[1].entry :
         name \in CarriedNames /\ WellFormed(name)
    /\ \A pair \in dns_namespace_to_names \ pre[1].byns :
         /\ pair[2] \in CarriedNames
         /\ WellFormed(pair[2])
         /\ pair[2] = SubSeq(pair[2], 1, Len(pair[2]) - Len(pair[1]) - 1)
                        \o <<".">> \o pair[1]
    /\ dns_names - pre[1].count =
         Cardinality({ name \in CarriedNames :
                         WellFormed(name) /\ name \notin DOMAIN pre[1].entry })
    /\ (\A name \in CarriedNames : ~WellFormed(name)) => DnsDb = pre[1]

\* one transaction carried alice.DOGE and then a padded alice.doge: only the
\* second is registered, trimmed
C30_Witness ==
  /\ Indexed
  /\ Len(from_transaction(cur_tx[1])) = 2
  /\ CarriedName(from_transaction(cur_tx[1])[1]) = Some(AliceDOGE)
  /\ cur_tx[1].input[1].payloads[2] = TextBody(AliceDogePadded)
  /\ pre[1].entry = EmptyTable
  /\ DOMAIN dns_name_to_entry = {AliceDoge}
  /\ dns_namespace_to_names = {<<<<"d", "o", "g", "e">>, AliceDoge>>}
  /\ dns_names = 1

\* the content-types step 2 of index_drc20_transaction lets through
AcceptedContentType(payload) ==
  /\ payload.content_type # None
  /\ \/ StartsWith(payload.content_type[1], TextPlain)
     \/ StartsWith(payload.content_type[1], ApplicationJson)

\* C31: only payloads of content-type text/plain* or application/json are
\* parsed: when every envelope of the transaction just indexed has another
\* content-type, or none, no token, balance, pending transfer or DNS name
\* has changed.
C31_OnlyTextOrJson ==
  (Indexed /\ \A i \in 1..Len(from_transaction(cur_tx[1])) :
                 ~AcceptedContentType(from_transaction(cur_tx[1])[i].payload))
    => /\ DnsDb = pre[1]
       /\ token_table = EmptyTable
       /\ balance_table = EmptyTable
       /\ transferable_table = EmptyTable
       /\ outpoint_to_transfer = EmptyTable

----------------------------------------------------------------------------
(* update_index: the runs that index the blocks of one chain *)

\* OutPoint::null(), the all-zero txid with vout u32::MAX (written -1): the
\* coinbase input, and the outpoint lost sats go to
NullOutpoint == <<0, -1>>

\* txid of the transaction at position k of the block at height h
Txid(h, k) == 10 * (h + 1) + k

CoinbaseTx == [input |-> <<TxIn(NullOutpoint, <<>>)>>, output |-> <<ScriptA>>,
               numbers |-> <<0, 0>>]

GenesisBlock ==
  [time |-> HeaderTime(0), lost |-> FALSE,
   txdata |-> <<[tx |-> CoinbaseTx, txid |-> Txid(0, 0)]>>]

DrcJsonAt(h) == IF h = 1 THEN Deploy100 ELSE IF h = 2 THEN Mint50 ELSE Transfer30

\* A block whose second transaction spends the previous coinbase and carries
\* a DRC-20 inscription
LedgerBlock(h) ==
  [time |-> HeaderTime(h), lost |-> FALSE,
   txdata |->
     <<[tx |-> CoinbaseTx, txid |-> Txid(h, 0)],
       [tx |-> [input |-> <<TxIn(<<Txid(h - 1, 0), 0>>, <<Payload(DrcJsonAt(h))>>)>>,
                output |-> <<ScriptA>>, numbers |-> <<0, 0>>],
        txid |-> Txid(h, 1)]>>]

\* A block whose second transaction spends the previous coinbase and carries
\* a name, whose third spends an output of the second, and whose coinbase
\* leaves sats unclaimed
NameBlock(h) ==
  [time |-> HeaderTime(h), lost |-> TRUE,
   txdata |->
     <<[tx |-> CoinbaseTx, txid |-> Txid(h, 0)],
       [tx |-> [input |-> <<TxIn(<<Txid(h - 1, 0), 0>>, <<TextBody(AliceDoge)>>)>>,
                output |-> <<ScriptB, ScriptA>>, numbers |-> <<0, 0>>],
        txid |-> Txid(h, 1)],
       [tx |-> [input |-> <<TxIn(<<Txid(h, 1), 0>>, <<>>)>>,
                output |-> <<OpReturn>>, numbers |-> <<0, 0>>],
        txid |-> Txid(h, 2)]>>]

\* A coinbase whose input script carries a mint inscription
MintingCoinbaseTx ==
  [input |-> <<TxIn(NullOutpoint, <<Payload(Mint50)>>)>>, output |-> <<ScriptA>>,
   numbers |-> <<0, 0>>]

\* A block whose coinbase mints the token its second transaction deploys,
\* whose third transaction mints it too and whose fourth inscribes a transfer
DeployBlock(h) ==
  [time |-> HeaderTime(h), lost |-> FALSE,
   txdata |->
     <<[tx |-> MintingCoinbaseTx, txid |-> Txid(h, 0)],
       [tx |-> [input |-> <<TxIn(<<Txid(h - 1, 0), 0>>, <<Payload(Deploy100)>>)>>,
                output |-> <<ScriptA>>, numbers |-> <<0, 0>>],
        txid |-> Txid(h, 1)],
       [tx |-> [input |-> <<TxIn(<<Txid(h, 1), 0>>, <<Payload(Mint50)>>)>>,
                output |-> <<ScriptA>>, numbers |-> <<0, 0>>],
        txid |-> Txid(h, 2)],
       [tx |-> [input |-> <<TxIn(<<Txid(h, 2), 0>>, <<Payload(Transfer30)>>)>>,
                output |-> <<ScriptA>>, numbers |-> <<0, 0>>],
        txid |-> Txid(h, 3)]>>]

\* A block whose second transaction spends the transfer inscription of the
\* block before, sending it to another address, and carries a transfer
\* inscription of that address
RelayBlock(h) ==
  [time |-> HeaderTime(h), lost |-> FALSE,
   txdata |->
     <<[tx |-> CoinbaseTx, txid |-> Txid(h, 0)],
       [tx |-> [input |-> <<TxIn(<<Txid(h - 1, 3), 0>>, <<Payload(Transfer30)>>)>>,
                output |-> <<ScriptB>>, numbers |-> <<0, 0>>],
        txid |-> Txid(h, 1)]>>]

RelayChain ==
  [i \in 1..NumBlocks |->
     IF i = 1 THEN GenesisBlock
     ELSE IF i = 2 THEN DeployBlock(1)
     ELSE IF i = 3 THEN RelayBlock(2)
     ELSE LedgerBlock(i - 1)]

Chains ==
  { [i \in 1..NumBlocks |->
       IF i = 1 THEN GenesisBlock
       ELSE IF v[i] THEN NameBlock(i - 1) ELSE LedgerBlock(i - 1)] :
      v \in [1..NumBlocks -> BOOLEAN] }
  \cup {RelayChain}

\* Values SystemTime::now() can return
Clock == {1, 2}

\* Values start.elapsed() can return
Elapsed == {1, 2}

EmptyDb == [tok |-> EmptyTable, bal |-> EmptyTable, trf |-> EmptyTable,
            pend |-> EmptyTable, ntok |-> 0]

EmptyDnsDb == [entry |-> EmptyTable, byid |-> EmptyTable, byns |-> {}, count |-> 0]

\* The tables of an empty database
EmptyStore ==
  [headers |-> <<>>,          \* HEIGHT_TO_BLOCK_HEADER
   utxo |-> EmptyTable,       \* OUTPOINT_TO_UTXO_ENTRY
   ts |-> EmptyTable,         \* WRITE_TRANSACTION_STARTING_BLOCK_COUNT_TO_TIMESTAMP
   stats |-> [commits |-> 0, initial_sync_time |-> None,
              outputs_traversed |-> 0, sat_ranges |-> 0],
   drc |-> EmptyDb,
   dns |-> EmptyDnsDb]

\* UtxoEntryBuf::merged: the sat ranges of both entries
merged(old_entry, new_entry) == old_entry \o new_entry

\* index_utxo_entries, the inputs of a transaction from position i on: each
\* spent entry is taken from the cache, else from the table, else it is an
\* output the node is asked for
\* index_utxo_entries that looks for a spent entry in the cache only
remove_entry_CacheOnly(st, outpoint) ==
  IF outpoint \in DOMAIN st.cache
    THEN [st EXCEPT !.cache = Remove(@, outpoint)]
  ELSE st

\* index_utxo_entries, one input: utxo_cache.remove, else
\* outpoint_to_utxo_entry.remove, else the output comes from the node
remove_entry(st, outpoint) ==
  IF outpoint \in DOMAIN st.cache
    THEN [st EXCEPT !.cache = Remove(@, outpoint)]
  ELSE IF outpoint \in DOMAIN st.wtx.utxo
    THEN [st EXCEPT !.wtx.utxo = Remove(@, outpoint)]
  ELSE st

RECURSIVE SpendInputs(_, _, _)
SpendInputs(st, tx, i) ==
  IF i > Len(tx.input) THEN st
  ELSE LET outpoint == tx.input[i].previous_output
           next == remove_entry(st, outpoint)
       IN  CHOOSE r \in { SpendInputs(n, tx, i + 1) : n \in {next} } : TRUE

\* index_utxo_entries: the outputs of a transaction go to the cache, one sat
\* range each
RECURSIVE InsertOutputs(_, _, _)
InsertOutputs(cache, txid, vout) ==
  IF vout < 0 THEN cache
  ELSE InsertOutputs(Insert(cache, <<txid, vout>>, <<<<txid, vout>>>>), txid, vout - 1)

\* index_utxo_entries: one pass of the loop over block.txdata
IndexTx(st, tx, txid, tx_offset, blk_time, h) ==
  LET spent == IF tx_offset = 0 THEN st ELSE SpendInputs(st, tx, 1)
  IN  CHOOSE r \in
        { [wtx |-> [sp.wtx EXCEPT !.dns = dns, !.drc = drc],
           cache |-> InsertOutputs(sp.cache, txid, Len(tx.output) - 1),
           outs |-> sp.outs + Len(tx.output)] :
            sp \in {spent},
            dns \in {index_dns_transaction(spent.wtx.dns, tx, txid, blk_time, h)},
            drc \in {index_drc20_transaction(spent.wtx.drc, tx, txid, blk_time, h)} } :
        TRUE

\* The order of the loop: every transaction after the coinbase, then the coinbase
TxOrder(n) == [j \in 1..n |-> IF j < n THEN j + 1 ELSE 1]

RECURSIVE IndexTxs(_, _, _, _)
IndexTxs(st, block, j, h) ==
  IF j > Len(block.txdata) THEN st
  ELSE LET k == TxOrder(Len(block.txdata))[j]
       IN  CHOOSE r \in
             { IndexTxs(next, block, j + 1, h) :
                 next \in {IndexTx(st, block.txdata[k].tx, block.txdata[k].txid,
                                    k - 1, block.time, h)} } :
             TRUE

\* index_utxo_entries: the loop, then the lost sat ranges of the block merged
\* into the cache entry of the null outpoint
index_utxo_entries(st, block, h) ==
  LET Lost(done) ==
        LET utxo_entry == IF NullOutpoint \in DOMAIN done.cache
                          THEN done.cache[NullOutpoint] ELSE <<>>
        IN  IF block.lost
            THEN [done EXCEPT !.cache = Insert(@, NullOutpoint,
                                               merged(utxo_entry, <<<<0, h>>>>))]
            ELSE done
  IN  CHOOSE r \in { Lost(done) : done \in {IndexTxs(st, block, 1, h)} } : TRUE

\* Updater::commit writing the cache entry of the null outpoint over the
\* stored one
commit_NoMerge(w, cache, traversed, sat_ranges) ==
  [w EXCEPT
     !.utxo = [o \in DOMAIN w.utxo \cup DOMAIN cache |->
                 IF o \in DOMAIN cache THEN cache[o] ELSE w.utxo[o]],
     !.stats.outputs_traversed = @ + traversed,
     !.stats.sat_ranges = @ + sat_ranges,
     !.stats.commits = @ + 1]

\* One step of Updater::commit: the call it makes, the tables as the write
\* transaction sees them after it (None once the transaction is consumed),
\* what is left of the cache, and the tables this commit has made durable
CommitStep(op, w, cache, committed) ==
  [op |-> op, wtx |-> w, cache |-> cache, committed |-> committed]

\* the loop of Updater::commit over utxo_cache
insert_cache(w, cache) ==
  [w EXCEPT
     !.utxo = [o \in DOMAIN w.utxo \cup DOMAIN cache |->
                 IF o \in DOMAIN cache
                 THEN IF o = NullOutpoint /\ o \in DOMAIN w.utxo
                      THEN merged(w.utxo[o], cache[o])
                      ELSE cache[o]
                 ELSE w.utxo[o]]]

\* the three Index::increment_statistic calls of Updater::commit
increment_statistics(w, traversed, sat_ranges) ==
  [w EXCEPT
     !.stats.outputs_traversed = @ + traversed,
     !.stats.sat_ranges = @ + sat_ranges,
     !.stats.commits = @ + 1]

\* Updater::commit that commits the write transaction before it raises the
\* statistics
commit_steps_StatisticsLate(w, cache, traversed, sat_ranges) ==
  << CommitStep("call", Some(w), cache, None),
     CommitStep("outpoint_to_utxo_entry.insert", Some(insert_cache(w, cache)),
                EmptyTable, None),
     CommitStep("wtx.commit", None, EmptyTable, Some(insert_cache(w, cache))),
     CommitStep("increment_statistic", None, EmptyTable,
                Some(insert_cache(w, cache))),
     CommitStep("begin_write.commit", None, EmptyTable,
                Some(insert_cache(w, cache))),
     CommitStep("update_savepoints", None, EmptyTable,
                Some(insert_cache(w, cache))) >>

\* Updater::commit, step by step: the cache goes to the table, the counters
\* to the statistics, the write transaction is committed, an empty
\* transaction is committed, and Reorg::update_savepoints is called
commit_steps(w, cache, traversed, sat_ranges) ==
  LET w1 == insert_cache(w, cache)
      w2 == increment_statistics(w1, traversed, sat_ranges)
  IN  << CommitStep("call", Some(w), cache, None),
         CommitStep("outpoint_to_utxo_entry.insert", Some(w1), EmptyTable, None),
         CommitStep("increment_statistic", Some(w2), EmptyTable, None),
         CommitStep("wtx.commit", None, EmptyTable, Some(w2)),
         CommitStep("begin_write.commit", None, EmptyTable, Some(w2)),
         CommitStep("update_savepoints", None, EmptyTable, Some(w2)) >>

\* Updater::commit: the result is the new committed store
commit(w, cache, traversed, sat_ranges) ==
  LET steps == commit_steps(w, cache, traversed, sat_ranges)
  IN  steps[Len(steps)].committed[1]

\* What update_index and the Updater hold: the committed store, the open
\* write transaction, and the in-memory state
Updater ==
  [store |-> store, wtx |-> wtx, cache |-> utxo_cache, uncommitted |-> uncommitted,
   height |-> height, start |-> starting_index_height,
   traversed |-> outputs_traversed, sat_ranges |-> sat_ranges_since_flush,
   steps |-> commit_log]

\* An Updater built on an empty database
NewUpdater ==
  [store |-> EmptyStore, wtx |-> EmptyStore, cache |-> EmptyTable, uncommitted |-> 0,
   height |-> 0, start |-> 0, traversed |-> 0, sat_ranges |-> 0, steps |-> <<>>]

\* update_index up to its loop: the start of the write transaction is
\* stamped with the clock's reading
update_index_begin(u, now) ==
  [u EXCEPT !.wtx = [u.store EXCEPT !.ts = Insert(@, u.height, now)],
            !.start = u.height,
            !.uncommitted = 0,
            !.cache = EmptyTable,
            !.steps = <<>>]

\* One pass of update_index's loop: index_block, then the commit when the
\* commit interval is reached or the reorg code asks for a savepoint, and
\* the stamp of the next write transaction
update_index_pass(u, block, savepoint_required, now) ==
  LET Rest(st) ==
        LET w == [st.wtx EXCEPT !.headers = Append(@, block.time)]
            traversed == u.traversed + st.outs
            sat_ranges == u.sat_ranges + 1
        IN  IF u.uncommitted + 1 = CommitInterval \/ savepoint_required
            THEN CHOOSE r \in
                   { [u EXCEPT !.store = committed,
                               !.wtx = [committed EXCEPT
                                          !.ts = Insert(@, u.height + 1, now)],
                               !.cache = EmptyTable,
                               !.uncommitted = 0,
                               !.height = @ + 1,
                               !.traversed = 0,
                               !.sat_ranges = 0,
                               !.steps = commit_steps(w, st.cache, traversed,
                                                      sat_ranges)] :
                       committed \in {commit(w, st.cache, traversed, sat_ranges)} } :
                   TRUE
            ELSE [u EXCEPT !.wtx = w,
                           !.cache = st.cache,
                           !.uncommitted = @ + 1,
                           !.height = @ + 1,
                           !.traversed = traversed,
                           !.sat_ranges = sat_ranges,
                           !.steps = <<>>]
  IN  CHOOSE r \in
        { Rest(st) :
            st \in {index_utxo_entries([wtx |-> u.wtx, cache |-> u.cache, outs |-> 0],
                                        block, u.height)} } :
        TRUE

\* update_index after its loop when it drops the write transaction without
\* the commit
update_index_end_NoCommit(u, elapsed) ==
  [u EXCEPT !.wtx = u.store, !.cache = EmptyTable,
            !.uncommitted = 0, !.traversed = 0, !.sat_ranges = 0,
            !.steps = <<>>]

\* update_index after its loop: the InitialSyncTime statistic, and the commit
\* when blocks are uncommitted; otherwise the write transaction is dropped
update_index_end(u, elapsed) ==
  LET w == IF u.start = 0 /\ u.height > 0
           THEN [u.wtx EXCEPT !.stats.initial_sync_time = Some(elapsed)]
           ELSE u.wtx
      kept == IF u.uncommitted > 0
              THEN commit(w, u.cache, u.traversed, u.sat_ranges)
              ELSE u.store
      steps == IF u.uncommitted > 0
               THEN commit_steps(w, u.cache, u.traversed, u.sat_ranges)
               ELSE <<>>
  IN  CHOOSE r \in
        { [u EXCEPT !.store = k, !.wtx = k, !.cache = EmptyTable,
                    !.uncommitted = 0, !.traversed = 0, !.sat_ranges = 0,
                    !.steps = steps] :
            k \in {kept} } :
        TRUE

InitRuns ==
  /\ InitLedgers
  /\ chain \in Chains
  /\ store = EmptyStore
  /\ wtx = EmptyStore
  /\ utxo_cache = EmptyTable
  /\ uncommitted = 0
  /\ starting_index_height = 0
  /\ outputs_traversed = 0
  /\ sat_ranges_since_flush = 0
  /\ running = "no"
  /\ shutting_down = FALSE
  /\ commit_log = <<>>
  /\ IdleRest

\* The variables take the Updater's new state
Becomes(u) ==
  /\ store' = u.store
  /\ wtx' = u.wtx
  /\ utxo_cache' = u.cache
  /\ uncommitted' = u.uncommitted
  /\ height' = u.height
  /\ starting_index_height' = u.start
  /\ outputs_traversed' = u.traversed
  /\ sat_ranges_since_flush' = u.sat_ranges
  /\ commit_log' = u.steps

\* update_index is called in a process started on the committed store, and
\* reaches its loop
StartUpdate ==
  /\ running = "no"
  /\ Len(store.headers) < Len(chain)
  /\ \E now \in Clock :
       \E u \in {update_index_begin(Updater, now)} : Becomes(u)
  /\ running' = "loop"
  /\ shutting_down' = FALSE
  /\ UNCHANGED chain
  /\ UNCHANGED <<next_txid, cur_tx, pre, token_table, balance_table,
                 transferable_table, outpoint_to_transfer, drc20_tokens>>
  /\ UNCHANGED dnsVars
  /\ UNCHANGED restVars

\* One pass of update_index's loop, which ends with the look at SHUTTING_DOWN
IndexBlock ==
  /\ running = "loop"
  /\ height < Len(chain)
  /\ \E savepoint_required \in BOOLEAN, now \in Clock :
       \E u \in {update_index_pass(Updater, chain[height + 1],
                                    savepoint_required, now)} : Becomes(u)
  /\ running' = IF shutting_down THEN "ended" ELSE "loop"
  /\ UNCHANGED <<chain, shutting_down>>
  /\ UNCHANGED <<next_txid, cur_tx, pre, token_table, balance_table,
                 transferable_table, outpoint_to_transfer, drc20_tokens>>
  /\ UNCHANGED dnsVars
  /\ UNCHANGED restVars

\* The signal handler sets SHUTTING_DOWN
Shutdown ==
  /\ running = "loop"
  /\ ~shutting_down
  /\ shutting_down' = TRUE
  /\ UNCHANGED <<height, chain, store, wtx, utxo_cache, uncommitted,
                 starting_index_height, outputs_traversed, sat_ranges_since_flush,
                 running, commit_log>>
  /\ UNCHANGED <<next_txid, cur_tx, pre, token_table, balance_table,
                 transferable_table, outpoint_to_transfer, drc20_tokens>>
  /\ UNCHANGED dnsVars
  /\ UNCHANGED restVars

\* update_index after its loop, which ends on SHUTTING_DOWN or when the
\* fetcher has no more blocks
FinishUpdate ==
  /\ running = "ended" \/ (running = "loop" /\ height = Len(chain))
  /\ \E elapsed \in Elapsed :
       \E u \in {update_index_end(Updater, elapsed)} : Becomes(u)
  /\ running' = "no"
  /\ UNCHANGED <<chain, shutting_down>>
  /\ UNCHANGED <<next_txid, cur_tx, pre, token_table, balance_table,
                 transferable_table, outpoint_to_transfer, drc20_tokens>>
  /\ UNCHANGED dnsVars
  /\ UNCHANGED restVars

NextRuns == StartUpdate \/ IndexBlock \/ Shutdown \/ FinishUpdate

SpecRuns == InitRuns /\ [][NextRuns]_vars

----------------------------------------------------------------------------
(* C1 *)

\* The run of update_index over the blocks of c from position i on, in one
\* process that is never shut down nor asked for a savepoint, every reading
\* of the clock being 1
RECURSIVE QuietPasses(_, _, _)
QuietPasses(u, c, i) ==
  IF i > Len(c) THEN u
  ELSE CHOOSE r \in
         { QuietPasses(next, c, i + 1) :
             next \in {update_index_pass(u, c[i], FALSE, 1)} } :
         TRUE

\* The store that run ends with
QuietRunStore(c) ==
  update_index_end(QuietPasses(update_index_begin(NewUpdater, 1), c, 1), 1).store

\* A run has reached the tip, in one process or several
RunEnded ==
  /\ running = "no"
  /\ Len(store.headers) = Len(chain)

\* C1 as stated: two runs over the same blocks end with identical committed
\* contents in every table, the statistics and the write-transaction
\* start-timestamp table included; here the second run is the quiet one.
C1_Deterministic_AsStated == RunEnded => store = QuietRunStore(chain)

\* A store without what depends on the clock and on where commits fall
WithoutRunData(s) ==
  [s EXCEPT !.ts = EmptyTable,
            !.stats.commits = 0,
            !.stats.initial_sync_time = None]

\* C1 (amended): two runs over the same blocks end with identical committed
\* contents in every table except the write-transaction start-timestamp
\* table and the Commits and InitialSyncTime statistics: every run ends with
\* what the quiet run ends with.
C1_Deterministic ==
  RunEnded => WithoutRunData(store) = WithoutRunData(QuietRunStore(chain))

\* A run has ended that committed at other heights and another number of
\* times than the quiet run, with unspent outputs, lost sats of two blocks
\* and a name in the store
C1_Witness ==
  /\ RunEnded
  /\ store.stats.commits # QuietRunStore(chain).stats.commits
  /\ DOMAIN store.ts # DOMAIN QuietRunStore(chain).ts
  /\ NullOutpoint \in DOMAIN store.utxo
  /\ Len(store.utxo[NullOutpoint]) > 1
  /\ store.dns.count > 0

----------------------------------------------------------------------------
(* C15 *)

\* a pass of update_index's loop has indexed a block
BlockIndexed == height' = height + 1

\* update_index has returned
Returned == running = "no"

\* the calls of Updater::commit, in the order the specification gives
CommitOrder ==
  <<"call", "outpoint_to_utxo_entry.insert", "increment_statistic", "wtx.commit",
    "begin_write.commit", "update_savepoints">>

\* C25: a commit performs its steps in this order: it writes every cached
\* UTXO entry to the store (merged with the stored entry when the outpoint
\* is the lost-coin sink), updates the statistics counters, commits the
\* write transaction, commits a second, empty transaction, then updates the
\* savepoints; the commit counter grows by exactly one per commit and the
\* UTXO cache is empty when indexing continues. (A step that indexes a block
\* or ends the loop has committed when it leaves a commit_log.)
C25_CommitOrder ==
  [][(commit_log' # <<>> /\ (height' # height \/ running' # running)) =>
       LET s == commit_log'
           called == s[1].wtx[1]
           written == s[2].wtx[1]
           counted == s[3].wtx[1]
       IN  /\ [i \in 1..Len(s) |-> s[i].op] = CommitOrder
           /\ DOMAIN written.utxo = DOMAIN called.utxo \cup DOMAIN s[1].cache
           /\ \A o \in DOMAIN written.utxo :
                written.utxo[o] =
                  IF o \notin DOMAIN s[1].cache THEN called.utxo[o]
                  ELSE IF o = NullOutpoint /\ o \in DOMAIN called.utxo
                    THEN merged(called.utxo[o], s[1].cache[o])
                  ELSE s[1].cache[o]
           /\ written.stats = called.stats
           /\ s[2].committed = None
           /\ counted.utxo = written.utxo
           /\ counted.stats.commits = called.stats.commits + 1
           /\ s[3].committed = None
           /\ \A k \in 4..6 : s[k].committed = Some(counted)
           /\ store' = counted
           /\ store'.stats.commits = store.stats.commits + 1
           /\ utxo_cache' = EmptyTable]_vars

\* the second commit of a run has merged lost coins into the stored entry
\* of the lost-coin sink, and the loop goes on
C25_Witness ==
  /\ commit_log # <<>>
  /\ running = "loop"
  /\ NullOutpoint \in DOMAIN commit_log[1].cache
  /\ NullOutpoint \in DOMAIN commit_log[1].wtx[1].utxo
  /\ store.stats.commits >= 2
  /\ utxo_cache = EmptyTable

\* C15: the shutdown flag is looked at after each indexed block; once it is
\* seen the updater indexes no further block and commits every block
\* indexed since the last commit, so that when update_index returns the
\* committed tip is the last block it indexed and a restart resumes at the
\* next height.
C15_ShutdownCommits ==
  /\ [][(BlockIndexed /\ shutting_down) => running' = "ended"]_vars
  /\ [][running = "ended" => (~BlockIndexed /\ running' = "no")]_vars
  /\ [](Returned => /\ Len(store.headers) = height
                     /\ store.utxo = wtx.utxo
                     /\ store.drc = wtx.drc
                     /\ store.dns = wtx.dns
                     /\ utxo_cache = EmptyTable
                     /\ uncommitted = 0)
  /\ [][(Returned /\ running' = "loop") =>
          (height' = Len(store.headers) /\ starting_index_height' = height')]_vars

\* update_index was shut down before the end of the chain and has returned,
\* the blocks it indexed committed by one commit
C15_Witness ==
  /\ Returned
  /\ shutting_down
  /\ 0 < height
  /\ height < Len(chain)
  /\ store.stats.commits = 1
  /\ store.stats.outputs_traversed > 0

----------------------------------------------------------------------------
(* C33 *)

\* the transactions of a block of n transactions in block order, the
\* coinbase (position 1) last
CoinbaseLast(n) == [j \in 1..n |-> (j % n) + 1]

\* the DRC-20 tables after the transactions order[j..] of the block, each
\* transaction first completing the transfers it spends and then applying
\* its envelopes
RECURSIVE LedgerOfTxs(_, _, _, _, _)
LedgerOfTxs(db, block, order, j, h) ==
  IF j > Len(order) THEN db
  ELSE LET t == block.txdata[order[j]]
           completed == CompleteTransfers(db, t.tx, 1)
           applied == ApplyEnvelopes(completed, t.tx, t.txid,
                                     from_transaction(t.tx), 0, block.time, h)
       IN  LedgerOfTxs(applied, block, order, j + 1, h)

\* the DNS tables after the transactions order[j..] of the block
RECURSIVE NamesOfTxs(_, _, _, _, _)
NamesOfTxs(db, block, order, j, h) ==
  IF j > Len(order) THEN db
  ELSE LET t == block.txdata[order[j]]
       IN  NamesOfTxs(RegisterNames(db, from_transaction(t.tx), 0, t.txid,
                                    t.tx.numbers, block.time, h),
                      block, order, j + 1, h)

\* the DRC-20 tables after the first n blocks of the chain
RECURSIVE LedgerAfter(_, _)
LedgerAfter(ch, n) ==
  IF n = 0 THEN EmptyDb
  ELSE LedgerOfTxs(LedgerAfter(ch, n - 1), ch[n],
                   CoinbaseLast(Len(ch[n].txdata)), 1, n - 1)

\* the DNS tables after the first n blocks of the chain
RECURSIVE NamesAfter(_, _)
NamesAfter(ch, n) ==
  IF n = 0 THEN EmptyDnsDb
  ELSE NamesOfTxs(NamesAfter(ch, n - 1), ch[n],
                  CoinbaseLast(Len(ch[n].txdata)), 1, n - 1)

\* C33: within one transaction every pending transfer its inputs spend is
\* completed before any of its DRC-20 envelopes is applied, so that an
\* amount credited to output 0's address is available to a transfer
\* inscription by that address in the same transaction; across a block the
\* DRC-20 and DNS effects are applied transaction by transaction in block
\* order, the coinbase last.
C33_PhasesInOrder ==
  /\ wtx.drc = LedgerAfter(chain, Len(wtx.headers))
  /\ wtx.dns = NamesAfter(chain, Len(wtx.headers))
  /\ (chain = RelayChain /\ Len(wtx.headers) \in {2, 3}) =>
       /\ wtx.drc.tok[dogi].minted = 100
       /\ wtx.drc.bal[BalKey(AddrA, dogi)] = 70
  /\ (chain = RelayChain /\ Len(wtx.headers) = 3) =>
       /\ <<Txid(2, 1), 0>> \in DOMAIN wtx.drc.pend
       /\ wtx.drc.pend[<<Txid(2, 1), 0>>] =
            [tick |-> dogi, amount |-> 30, from_address |-> AddrB]
       /\ wtx.drc.trf[BalKey(AddrB, dogi)] = 30
       /\ wtx.drc.bal[BalKey(AddrB, dogi)] = 0

\* the block whose transaction spends a pending transfer and inscribes a
\* transfer of the credited address has been indexed, after the block whose
\* coinbase mints the token deployed in that block
C33_Witness ==
  /\ chain = RelayChain
  /\ Len(wtx.headers) = 3
  /\ DOMAIN wtx.drc.pend = {<<Txid(2, 1), 0>>}
  /\ wtx.drc.tok[dogi].minted = 100

----------------------------------------------------------------------------
(* C34 *)

\* the outpoints of the outputs of the first n blocks of the chain
CreatedOutpoints(ch, n) ==
  UNION { UNION { { <<ch[b].txdata[k].txid, vout>> :
                      vout \in 0..(Len(ch[b].txdata[k].tx.output) - 1) } :
                    k \in 1..Len(ch[b].txdata) } :
            b \in 1..n }

\* the outpoints the inputs of the non-coinbase transactions of the first n
\* blocks of the chain spend
SpentOutpoints(ch, n) ==
  UNION { UNION { { ch[b].txdata[k].tx.input[i].previous_output :
                      i \in 1..Len(ch[b].txdata[k].tx.input) } :
                    k \in 2..Len(ch[b].txdata) } :
            b \in 1..n }

\* C34: a UTXO entry exists from the moment its output is indexed until its
\* outpoint is spent: the outpoints with an entry in the cache or in the
\* table are the outputs indexed so far less the outpoints spent by the
\* inputs of non-coinbase transactions; after a commit the same holds of the
\* committed table, and no outpoint other than the lost-coin sink is ever in
\* both the cache and the table.
C34_UtxoEntries ==
  /\ (DOMAIN utxo_cache \cup DOMAIN wtx.utxo) \ {NullOutpoint}
       = CreatedOutpoints(chain, Len(wtx.headers))
           \ SpentOutpoints(chain, Len(wtx.headers))
  /\ DOMAIN store.utxo \ {NullOutpoint}
       = CreatedOutpoints(chain, Len(store.headers))
           \ SpentOutpoints(chain, Len(store.headers))
  /\ (DOMAIN utxo_cache \cap DOMAIN wtx.utxo) \subseteq {NullOutpoint}

\* a block whose transaction spends an output committed earlier has been
\* indexed and committed, and the lost-coin sink has a committed entry
C34_Witness ==
  /\ Len(store.headers) = 3
  /\ uncommitted = 0
  /\ store.stats.commits >= 2
  /\ <<Txid(1, 0), 0>> \notin DOMAIN store.utxo
  /\ <<Txid(2, 1), 0>> \in DOMAIN store.utxo
  /\ NullOutpoint \in DOMAIN store.utxo

----------------------------------------------------------------------------
(* Coin ranges: SatRange::store / SatRange::load (src/index/entry.rs) and  *)
(* Updater::index_transaction_sats (src/index/updater.rs)                  *)

\* A u64 or u128 is the set of the positions of its one bits, so that the
\* 51-bit base, the 33-bit delta and the 88 bits of the packed value keep
\* their widths.
U64Bits == 0..63

\* The bits of a small natural number
ToBits(n) == {i \in 0..30 : (n \div (2 ^ i)) % 2 = 1}

\* The natural number of a set of bits below 31
RECURSIVE FromBits(_)
FromBits(b) ==
  IF b = {} THEN 0
  ELSE LET i == CHOOSE x \in b : TRUE IN (2 ^ i) + FromBits(b \ {i})

\* u64 addition (wrapping at 64 bits), one bit position at a time
RECURSIVE AddFrom(_, _, _, _)
AddFrom(a, b, i, carry) ==
  IF i > 63 THEN {}
  ELSE LET ones == (IF i \in a THEN 1 ELSE 0) + (IF i \in b THEN 1 ELSE 0) + carry
       IN  (IF ones % 2 = 1 THEN {i} ELSE {}) \cup AddFrom(a, b, i + 1, ones \div 2)

Add64(a, b) == AddFrom(a, b, 0, 0)

\* u64 subtraction (wrapping): a + !b + 1
Sub64(a, b) == AddFrom(a, U64Bits \ b, 0, 1)

ShiftLeft(a, k) == {i + k : i \in a}

ShiftRight(a, k) == {i - k : i \in {x \in a : x >= k}}

\* byte k (from 0) of the little-endian bytes of n
LeByte(n, k) == FromBits(ShiftRight({i \in n : i < 8 * k + 8}, 8 * k))

\* u64::from_le_bytes of the given bytes, the rest being zero
FromLeBytes(bytes) ==
  UNION {ShiftLeft(ToBits(bytes[k]), 8 * (k - 1)) : k \in 1..Len(bytes)}

\* SatRange::store: base | delta << 51 as a u128, its low 11 bytes
SatRange_store(range) ==
  LET base == range[1]
      delta == Sub64(range[2], range[1])
      n == base \cup ShiftLeft(delta, 51)
  IN  [k \in 1..11 |-> LeByte(n, k - 1)]

\* SatRange::load that takes the delta from bit 50 on
SatRange_load_ShiftTwo(value) ==
  LET raw_base == FromLeBytes(SubSeq(value, 1, 7))
      base == raw_base \cap (0..50)
      raw_delta == FromLeBytes(SubSeq(value, 7, 11))
      delta == ShiftRight(raw_delta, 2)
  IN  <<base, Add64(base, delta)>>

\* SatRange::load
SatRange_load(value) ==
  LET raw_base == FromLeBytes(SubSeq(value, 1, 7))
      base == raw_base \cap (0..50)
      raw_delta == FromLeBytes(SubSeq(value, 7, 11))
      delta == ShiftRight(raw_delta, 3)
  IN  <<base, Add64(base, delta)>>

\* The numbers of the model count koinu in units of 2^UnitBits, the largest
\* power of two that divides DOGE_MIN_SUBSIDY (10^12 = 244140625 * 2^12),
\* which lets them reach the subsidy of a block
UnitBits == 12

\* the u64 of n units
Koinu(n) == ShiftLeft(ToBits(n), UnitBits)

\* the units of a u64 below 2^(31 + UnitBits)
Units(bits) == FromBits(ShiftRight(bits, UnitBits))

\* (start, end) in units, packed
pack(range) == SatRange_store(<<Koinu(range[1]), Koinu(range[2])>>)

\* a packed range, unpacked, in units
unpack(chunk) ==
  LET range == SatRange_load(chunk)
  IN  <<Units(range[1]), Units(range[2])>>

\* input_sat_ranges.iter().flat_map(|slice| slice.chunks_exact(11)):
\* a slice is the sequence of its 11-byte chunks
RECURSIVE flat_map(_)
flat_map(slices) ==
  IF slices = <<>> THEN <<>> ELSE Head(slices) \o flat_map(Tail(slices))

\* the range an output takes from `range` although more than `remaining`
\* coins are in it
assigned_NoSplit(range, remaining) ==
  [assigned |-> range, pending |-> None, split |-> 0]

\* the range an output takes from `range` when it still needs `remaining`
\* coins, and the rest of the range
assigned(range, remaining) ==
  LET count == range[2] - range[1]
      middle == range[1] + remaining
  IN  IF count > remaining
      THEN [assigned |-> <<range[1], middle>>,
            pending |-> Some(<<middle, range[2]>>), split |-> 1]
      ELSE [assigned |-> range, pending |-> None, split |-> 0]

\* the while loop of one output: s is the state of the walk over the inputs
RECURSIVE AssignOutput(_, _, _)
AssignOutput(s, chunks, remaining) ==
  IF remaining = 0 \/ s.panicked THEN s
  ELSE IF s.pending = None /\ s.next > Len(chunks)
    THEN [s EXCEPT !.panicked = TRUE]
  ELSE LET range == IF s.pending # None THEN s.pending[1] ELSE unpack(chunks[s.next])
           a == assigned(range, remaining)
       IN  CHOOSE r \in
             { AssignOutput(t, chunks, remaining - (a.assigned[2] - a.assigned[1])) :
                 t \in {[s EXCEPT
                           !.pending = a.pending,
                           !.next = IF s.pending # None THEN @ ELSE @ + 1,
                           !.koinu = @ \o <<pack(a.assigned)>>,
                           !.sat_ranges_since_flush = @ + a.split,
                           !.sat_ranges_written = @ + 1]} } :
             TRUE

\* the loop over tx.output
RECURSIVE AssignOutputs(_, _, _, _)
AssignOutputs(s, chunks, output, vout) ==
  IF vout > Len(output) \/ s.panicked THEN s
  ELSE CHOOSE r \in
         { AssignOutputs([t EXCEPT !.output_utxo_entries = Append(@, t.koinu),
                                   !.koinu = <<>>,
                                   !.outputs_traversed = @ + 1],
                         chunks, output, vout + 1) :
             t \in {AssignOutput(s, chunks, output[vout])} } :
         TRUE

\* the end of index_transaction_sats, which forgets the pending range
leftover_DropPending(leftover_sat_ranges, pending_input_sat_range, rest) ==
  leftover_sat_ranges \o rest

\* the end of index_transaction_sats: the pending range, then the ranges
\* the iterator has not yielded, go to leftover_sat_ranges
leftover(leftover_sat_ranges, pending_input_sat_range, rest) ==
  (IF pending_input_sat_range # None
   THEN leftover_sat_ranges \o <<pack(pending_input_sat_range[1])>>
   ELSE leftover_sat_ranges) \o rest

\* Updater::index_transaction_sats; output is the values of tx.output
index_transaction_sats(output, input_sat_ranges, leftover_sat_ranges) ==
  LET chunks == flat_map(input_sat_ranges)
      start == [pending |-> None, next |-> 1, koinu |-> <<>>,
                output_utxo_entries |-> <<>>, panicked |-> FALSE,
                sat_ranges_since_flush |-> 0, sat_ranges_written |-> 0,
                outputs_traversed |-> 0]
      Done(s) ==
        [output_utxo_entries |-> s.output_utxo_entries,
         leftover_sat_ranges |->
           IF s.panicked THEN leftover_sat_ranges
           ELSE leftover(leftover_sat_ranges, s.pending,
                         SubSeq(chunks, s.next, Len(chunks))),
         panicked |-> s.panicked,
         sat_ranges_since_flush |-> s.sat_ranges_since_flush,
         sat_ranges_written |-> s.sat_ranges_written,
         outputs_traversed |-> s.outputs_traversed]
  IN  CHOOSE r \in { Done(s) : s \in {AssignOutputs(start, chunks, output, 1)} } : TRUE

\* DOGE_MIN_SUBSIDY = 10_000 * COIN_VALUE = 10^12 koinu = 244140625 * 2^12
DOGE_MIN_SUBSIDY == Koinu(244140625)

\* The first height of the block runs: the subsidy is DOGE_MIN_SUBSIDY from
\* there on
FloorHeight == 600000

\* Height::subsidy for the heights of the block runs (dogecoin_block_subsidy
\* past the wonky era is dogecoin_standard_subsidy)
Height_subsidy(h) == IF h >= FloorHeight THEN DOGE_MIN_SUBSIDY ELSE {}

\* Height::starting_sat, counted from the first height of the block runs
Height_starting_sat(h) == Koinu((h - FloorHeight) * Units(DOGE_MIN_SUBSIDY))

\* lost_koinu += end - start for every chunk of lost_sat_ranges
RECURSIVE AddLost(_, _)
AddLost(lost_koinu, chunks) ==
  IF chunks = <<>> THEN lost_koinu
  ELSE AddLost(lost_koinu + (unpack(Head(chunks))[2] - unpack(Head(chunks))[1]),
               Tail(chunks))

\* index_utxo_entries, the passes of the loop over block.txdata for the
\* transactions after the coinbase, from position tx_offset on: what a
\* transaction leaves over goes to coinbase_inputs
RECURSIVE IndexNonCoinbase(_, _, _)
IndexNonCoinbase(st, txdata, tx_offset) ==
  IF tx_offset >= Len(txdata) \/ st.panicked THEN st
  ELSE CHOOSE r \in
         { IndexNonCoinbase(
             [coinbase_inputs |-> t.leftover_sat_ranges,
              order |-> Append(st.order, tx_offset),
              entries |-> Append(st.entries, t.output_utxo_entries),
              panicked |-> t.panicked],
             txdata, tx_offset + 1) :
             t \in {index_transaction_sats(txdata[tx_offset + 1].output,
                                           txdata[tx_offset + 1].input_sat_ranges,
                                           st.coinbase_inputs)} } :
         TRUE

\* index_utxo_entries as far as coin ranges go: the subsidy range opens
\* coinbase_inputs, the transactions after the coinbase are indexed, then the
\* coinbase with coinbase_inputs as its only input, and what it leaves over
\* is merged into the entry of the null outpoint and counted as lost
index_block_sats(block, lost_entry, lost_koinu) ==
  LET subsidy == Height_subsidy(block.height)
      start == Height_starting_sat(block.height)
      coinbase_inputs ==
        IF subsidy # {} THEN <<SatRange_store(<<start, Add64(start, subsidy)>>)>>
        ELSE <<>>
      Coinbase(rest) ==
        CHOOSE r \in
          { [panicked |-> cb.panicked,
             order |-> Append(rest.order, 0),
             coinbase_inputs |-> rest.coinbase_inputs,
             entries |-> Append(rest.entries, cb.output_utxo_entries),
             lost_sat_ranges |-> cb.leftover_sat_ranges,
             lost_entry |-> IF cb.panicked \/ cb.leftover_sat_ranges = <<>>
                            THEN lost_entry
                            ELSE merged(lost_entry, cb.leftover_sat_ranges),
             lost_koinu |-> IF cb.panicked THEN lost_koinu
                            ELSE AddLost(lost_koinu, cb.leftover_sat_ranges)] :
              cb \in {index_transaction_sats(block.txdata[1].output,
                                             <<rest.coinbase_inputs>>, <<>>)} } :
          TRUE
      Failed(rest) ==
        [panicked |-> TRUE, order |-> rest.order,
         coinbase_inputs |-> rest.coinbase_inputs, entries |-> rest.entries,
         lost_sat_ranges |-> <<>>, lost_entry |-> lost_entry,
         lost_koinu |-> lost_koinu]
  IN  CHOOSE r \in
        { IF rest.panicked THEN Failed(rest) ELSE Coinbase(rest) :
            rest \in {IndexNonCoinbase(
                        [coinbase_inputs |-> coinbase_inputs, order |-> <<>>,
                         entries |-> <<>>, panicked |-> FALSE],
                        block.txdata, 1)} } :
        TRUE

\* Inputs of the coin-range runs

\* bases: zero, one, the largest 51-bit base, and bases with bits in the
\* byte the base shares with the delta; 2^51 is the first base out of range
Bases == { {}, {0}, 0..50, {50}, {48, 49, 50}, {0, 8, 47}, {51} }

\* deltas: zero, one, the largest 33-bit delta, and deltas with bits on
\* both sides of the shared byte; 2^37 is the first delta that is cut off
Deltas == { {}, {0}, 0..32, {32}, {0, 4, 5}, {3, 12, 31}, {33}, {37} }

\* start < 2^51 and 0 <= end - start < 2^33: a start below 2^51 and an
\* end below it would leave a difference of more than 33 bits
InDomain(range) ==
  /\ range[1] \subseteq 0..50
  /\ Sub64(range[2], range[1]) \subseteq 0..32

R100_200 == <<100, 200>>

R200_210 == <<200, 210>>

R0_5 == <<0, 5>>

\* the coin ranges of the inputs' UTXO entries, input by input
InputSatRanges ==
  { <<>>,
    << <<pack(R100_200)>> >>,
    << <<pack(R100_200), pack(R0_5)>> >>,
    << <<pack(R0_5)>>, <<pack(R100_200)>> >>,
    << <<pack(R100_200)>>, <<pack(R200_210)>> >>,
    << <<>>, <<pack(R100_200)>> >> }

OutputValues == {0, 5, 30, 70, 100}

\* the values of tx.output
SatOutputs ==
  {<<>>} \cup {<<a>> : a \in OutputValues}
         \cup {<<a, b>> : a \in OutputValues, b \in OutputValues}

\* leftover_sat_ranges before the call: coinbase_inputs or lost_sat_ranges
Leftovers == { <<>>, <<pack(<<300, 350>>)>> }

\* A transaction of a block: the values of its outputs and the coin ranges
\* of the UTXO entries it spends
SatTx(output, input_sat_ranges) ==
  [output |-> output, input_sat_ranges |-> input_sat_ranges]

\* The transactions after the coinbase: none, one that pays a fee of 20, and
\* that one followed by one that pays all it spends as a fee
NonCoinbaseLists ==
  { <<>>,
    << SatTx(<<30, 50>>, << <<pack(R100_200)>> >>) >>,
    << SatTx(<<30, 50>>, << <<pack(R100_200)>> >>),
       SatTx(<<>>, << <<pack(R0_5)>> >>) >>,
    << SatTx(<<5>>, << <<pack(R0_5)>> >>),
       SatTx(<<100, 10>>, << <<pack(R100_200)>>, <<pack(R200_210)>> >>) >> }

\* What the coinbase pays out: nothing, a little, the subsidy, the subsidy
\* and a fee of 20
CoinbaseOutputs ==
  { <<>>, <<5>>, <<Units(DOGE_MIN_SUBSIDY)>>, <<Units(DOGE_MIN_SUBSIDY), 20>> }

SatBlocks ==
  { [height |-> h, txdata |-> <<SatTx(cb, <<>>)>> \o rest,
     lost_entry |-> lost, lost_koinu |-> AddLost(0, lost)] :
      h \in {FloorHeight, FloorHeight + 1},
      cb \in CoinbaseOutputs,
      rest \in NonCoinbaseLists,
      lost \in Leftovers }

InitSats ==
  /\ InitLedgers
  /\ IdleUpdater
  /\ IdleSource
  /\ IdlePrefetch
  /\ sat_value = None
  /\ sat_loaded = None
  /\ sat_result = None
  /\ sat_block_result = None
  /\ amount_in = None
  /\ amount_out = None
  /\ batch_in = None
  /\ batch_out = None
  /\ serve_in = None
  /\ serve_out = None
  /\ epoch_in = None
  /\ epoch_out = None
  /\ shared_headers = None
  /\ write_lock = None
  /\ updaters = None
  /\ \/ /\ \E base \in Bases, delta \in Deltas :
             sat_range = Some(<<base, Add64(base, delta)>>)
        /\ sat_tx = None
        /\ sat_block = None
     \/ /\ sat_range = None
        /\ sat_tx = None
        /\ sat_block \in { Some(b) : b \in SatBlocks }
     \/ /\ sat_range = None
        /\ sat_block = None
        /\ \E output \in SatOutputs, input_sat_ranges \in InputSatRanges,
              leftover_sat_ranges \in Leftovers :
             sat_tx = Some([output |-> output,
                            input_sat_ranges |-> input_sat_ranges,
                            leftover_sat_ranges |-> leftover_sat_ranges])

\* SatRange::store of the range
StoreSatRange ==
  /\ sat_range # None
  /\ sat_value = None
  /\ sat_value' = Some(SatRange_store(sat_range[1]))
  /\ UNCHANGED <<sat_range, sat_loaded, sat_tx, sat_result, sat_block,
                 sat_block_result,
                 amount_in, amount_out,
                 batch_in, batch_out, serve_in, serve_out,
                 epoch_in, epoch_out,
                 shared_headers, write_lock, updaters>>
  /\ UNCHANGED <<drcVars, dnsVars, runVars, srcVars, fetchVars>>

\* SatRange::load of the stored value
LoadSatRange ==
  /\ sat_value # None
  /\ sat_loaded = None
  /\ sat_loaded' = Some(SatRange_load(sat_value[1]))
  /\ UNCHANGED <<sat_range, sat_value, sat_tx, sat_result, sat_block,
                 sat_block_result,
                 amount_in, amount_out,
                 batch_in, batch_out, serve_in, serve_out,
                 epoch_in, epoch_out,
                 shared_headers, write_lock, updaters>>
  /\ UNCHANGED <<drcVars, dnsVars, runVars, srcVars, fetchVars>>

\* index_utxo_entries calls index_transaction_sats for the transaction
IndexTransactionSats ==
  /\ sat_tx # None
  /\ sat_result = None
  /\ sat_result' = Some(index_transaction_sats(sat_tx[1].output,
                                                sat_tx[1].input_sat_ranges,
                                                sat_tx[1].leftover_sat_ranges))
  /\ UNCHANGED <<sat_range, sat_value, sat_loaded, sat_tx, sat_block,
                 sat_block_result,
                 amount_in, amount_out,
                 batch_in, batch_out, serve_in, serve_out,
                 epoch_in, epoch_out,
                 shared_headers, write_lock, updaters>>
  /\ UNCHANGED <<drcVars, dnsVars, runVars, srcVars, fetchVars>>

\* index_utxo_entries tracks the coin ranges of the block
IndexBlockSats ==
  /\ sat_block # None
  /\ sat_block_result = None
  /\ \E r \in {index_block_sats(sat_block[1], sat_block[1].lost_entry,
                                 sat_block[1].lost_koinu)} :
       sat_block_result' = Some(r)
  /\ UNCHANGED <<sat_range, sat_value, sat_loaded, sat_tx, sat_result, sat_block,
                 amount_in, amount_out,
                 batch_in, batch_out, serve_in, serve_out,
                 epoch_in, epoch_out,
                 shared_headers, write_lock, updaters>>
  /\ UNCHANGED <<drcVars, dnsVars, runVars, srcVars, fetchVars>>

NextSats ==
  StoreSatRange \/ LoadSatRange \/ IndexTransactionSats \/ IndexBlockSats

SpecSats == InitSats /\ [][NextSats]_vars

----------------------------------------------------------------------------
(* parse_amount applied to short strings *)

\* the longest string parse_amount is given
MaxAmountLen == 4

AmountChars == {"1", "5", "+", "-", ".", " "}

AmountStrings ==
  UNION { [1..n -> AmountChars] : n \in 0..MaxAmountLen }

\* the decimals of a token (drc20_deploy admits 0..18)
DecimalsOfToken == {0, 1, 2}

InitAmount ==
  /\ InitLedgers
  /\ IdleUpdater
  /\ IdleSource
  /\ IdlePrefetch
  /\ sat_range = None
  /\ sat_value = None
  /\ sat_loaded = None
  /\ sat_tx = None
  /\ sat_result = None
  /\ sat_block = None
  /\ sat_block_result = None
  /\ \E s \in AmountStrings, decimals \in DecimalsOfToken :
       amount_in = Some(<<s, decimals>>)
  /\ amount_out = None
  /\ batch_in = None
  /\ batch_out = None
  /\ serve_in = None
  /\ serve_out = None
  /\ epoch_in = None
  /\ epoch_out = None
  /\ shared_headers = None
  /\ write_lock = None
  /\ updaters = None

\* a caller (drc20_deploy, drc20_mint, drc20_transfer_create) calls
\* parse_amount(s, decimals)
ParseAmount ==
  /\ amount_in # None
  /\ amount_out = None
  /\ \E r \in {parse_amount(amount_in[1][1], amount_in[1][2])} :
       amount_out' = Some(r)
  /\ UNCHANGED <<sat_range, sat_value, sat_loaded, sat_tx, sat_result, sat_block,
                 sat_block_result, amount_in,
                 batch_in, batch_out, serve_in, serve_out,
                 epoch_in, epoch_out,
                 shared_headers, write_lock, updaters>>
  /\ UNCHANGED <<drcVars, dnsVars, runVars, srcVars, fetchVars>>

NextAmount == ParseAmount

SpecAmount == InitAmount /\ [][NextAmount]_vars

\* s is an unsigned integer or fixed-decimal numeral: digits, at most one
\* dot, which is neither first nor last, and nothing else
IsNumeral(s) ==
  /\ Len(s) > 0
  /\ \A i \in 1..Len(s) : IsDigit(s[i]) \/ s[i] = "."
  /\ Cardinality({ i \in 1..Len(s) : s[i] = "." }) <= 1
  /\ s[1] # "."
  /\ s[Len(s)] # "."

\* the number of digits after the dot of a numeral
FractionalDigits(s) == IF FindDot(s) = 0 THEN 0 ELSE Len(s) - FindDot(s)

\* the digits of a numeral, without the dot
NumeralDigits(s) == SelectSeq(s, IsDigit)

\* C32: parse_amount(s, d) yields a value exactly when s is an unsigned
\* integer or fixed-decimal numeral with no sign character anywhere, no
\* leading or trailing dot, no spaces and at most d fractional digits, and
\* the value is the numeral multiplied by 10^d; every other string is
\* rejected.
C32_ParseAmount ==
  amount_out # None =>
    LET s == amount_in[1][1]
        d == amount_in[1][2]
        r == amount_out[1]
    IN  /\ r # None <=> (IsNumeral(s) /\ FractionalDigits(s) <= d)
        /\ r # None =>
             r[1] = DigitsValue(NumeralDigits(s)) * Pow10(d - FractionalDigits(s))

----------------------------------------------------------------------------
(* One pass of the loop of spawn_fetcher: the batch and its chunks *)

\* BATCH_SIZE of spawn_fetcher
BATCH_SIZE == 2048

\* the most outpoints waiting in the outpoint channel when a pass begins
MaxQueued == 2100

\* values of settings.bitcoin_rpc_limit()
RpcLimits == {1, 2, 3, 12, 16, 64}

\* `vec![outpoint]` and the loop `for _ in 0..BATCH_SIZE - 1` of try_recv:
\* the number of outpoints taken when `queued` of them are in the channel
batch_len(queued) == 1 + Min(queued - 1, BATCH_SIZE - 1)

\* a chunk size that leaves out the `+ 1`
chunk_size_for_RoundedDown(len, parallel_requests) ==
  IF len \div parallel_requests = 0 THEN 1 ELSE len \div parallel_requests

\* `(outpoints.len() / parallel_requests) + 1`
chunk_size_for(len, parallel_requests) == (len \div parallel_requests) + 1

\* slice::chunks over a batch of `len` outpoints, each chunk given by the
\* positions <<first, last>> of the batch it holds
RECURSIVE chunk_bounds(_, _, _)
chunk_bounds(len, size, first) ==
  IF first > len THEN <<>>
  ELSE <<<<first, Min(first + size - 1, len)>>>>
       \o chunk_bounds(len, size, first + size)

InitBatch ==
  /\ InitLedgers
  /\ IdleUpdater
  /\ IdleSource
  /\ IdlePrefetch
  /\ sat_range = None
  /\ sat_value = None
  /\ sat_loaded = None
  /\ sat_tx = None
  /\ sat_result = None
  /\ sat_block = None
  /\ sat_block_result = None
  /\ amount_in = None
  /\ amount_out = None
  /\ \E queued \in 1..MaxQueued, parallel_requests \in RpcLimits :
       batch_in = Some(<<queued, parallel_requests>>)
  /\ batch_out = None
  /\ serve_in = None
  /\ serve_out = None
  /\ epoch_in = None
  /\ epoch_out = None
  /\ shared_headers = None
  /\ write_lock = None
  /\ updaters = None

\* recv returns an outpoint, try_recv fills the batch and the batch is
\* broken into chunks
TakeBatch ==
  /\ batch_in # None
  /\ batch_out = None
  /\ \E len \in {batch_len(batch_in[1][1])} :
       \E cs \in {chunk_bounds(len, chunk_size_for(len, batch_in[1][2]), 1)} :
         batch_out' = Some([len |-> len, chunks |-> cs])
  /\ UNCHANGED <<sat_range, sat_value, sat_loaded, sat_tx, sat_result, sat_block,
                 sat_block_result, amount_in, amount_out, batch_in,
                 serve_in, serve_out,
                 epoch_in, epoch_out,
                 shared_headers, write_lock, updaters>>
  /\ UNCHANGED <<drcVars, dnsVars, runVars, srcVars, fetchVars>>

NextBatch == TakeBatch

SpecBatch == InitBatch /\ [][NextBatch]_vars

\* C35: the prefetch worker never takes more than 2048 outpoints into one
\* batch, and for every batch size from 1 to 2048 and every concurrency
\* limit N >= 1 it splits the batch into at most N chunks, which together
\* cover every outpoint of the batch exactly once and in order.
C35_BatchAndChunks ==
  batch_out # None =>
    LET N == batch_in[1][2]
        len == batch_out[1].len
        cs == batch_out[1].chunks
    IN  /\ len >= 1
        /\ len <= 2048
        /\ len <= batch_in[1][1]
        /\ Len(cs) >= 1
        /\ Len(cs) <= N
        /\ cs[1][1] = 1
        /\ cs[Len(cs)][2] = len
        /\ \A c \in 1..Len(cs) : cs[c][1] <= cs[c][2]
        /\ \A c \in 1..(Len(cs) - 1) : cs[c + 1][1] = cs[c][2] + 1

\* a full batch was taken from a longer queue and split into exactly N
\* chunks, the last one shorter than the others
C35_Witness ==
  /\ batch_out # None
  /\ batch_in[1][1] > 2048
  /\ batch_out[1].len = 2048
  /\ batch_in[1][2] = 12
  /\ Len(batch_out[1].chunks) = 12
  /\ batch_out[1].chunks[12][2] - batch_out[1].chunks[12][1]
       < batch_out[1].chunks[1][2] - batch_out[1].chunks[1][1]

----------------------------------------------------------------------------
(* The subsidy and the coin numbers of a h (crates/ordinals epoch.rs) *)

\* Coins are counted in units of 1250 DOGE = 125_000_000_000 koinu, of which
\* every subsidy of the closed-form schedule is a whole number: 500_000 DOGE
\* are 400 units, 10_000 DOGE are 8.

\* the largest whole number of units a u64 of koinu holds:
\* 18446744073709551615 div 125000000000
U64MaxUnits == 147573952

\* u64::MAX koinu, which is no whole number of units
U64_MAX == -1

\* u64::saturating_add
saturating_add(a, b) ==
  IF a = U64_MAX \/ b = U64_MAX \/ a + b > U64MaxUnits THEN U64_MAX ELSE a + b

\* u64::saturating_mul, for factors whose product is below 2^31 units
saturating_mul(a, b) ==
  IF a = U64_MAX \/ b = U64_MAX \/ a * b > U64MaxUnits THEN U64_MAX ELSE a * b

WONKY_ERA_LEN == 145006

\* subsidies.json: a subsidy for every h of the wonky era, here the
\* same 180_000 DOGE for each
WonkySubsidy == 144

SUBSIDIES(h) == IF h < WONKY_ERA_LEN THEN Some(WonkySubsidy) ELSE None

\* starting_sats.json: the coins minted before block n, for every block
\* boundary of the wonky era
StartingSatsLen == WONKY_ERA_LEN + 1

STARTING_SATS(n) == n * WonkySubsidy

dogecoin_standard_subsidy(h) ==
  IF h >= 600000 THEN 8
  ELSE CASE h \div 100000 \in {0, 1} -> 400
         [] h \div 100000 = 2 -> 200
         [] h \div 100000 = 3 -> 100
         [] h \div 100000 = 4 -> 50
         [] h \div 100000 = 5 -> 25
         [] OTHER -> 8

dogecoin_block_subsidy(h) ==
  IF SUBSIDIES(h) # None THEN SUBSIDIES(h)[1]
  ELSE dogecoin_standard_subsidy(h)

\* where the i-th turn of the while loop of cumulative_post_wonky_sats
\* stands: at the end of the wonky era first, at the 100,000-block period
\* boundaries after it
period_start(i) ==
  IF i = 0 THEN WONKY_ERA_LEN ELSE ((WONKY_ERA_LEN \div 100000) + i) * 100000

\* one turn of the loop: the blocks from h to the end of its period, or to
\* `upto`, at the subsidy of h
loop_turn(h, upto, total) ==
  LET subsidy == dogecoin_standard_subsidy(h)
      period_end == Min(((h \div 100000) + 1) * 100000, upto)
      blocks == period_end - h
  IN  saturating_add(total, saturating_mul(blocks, subsidy))

\* the turns first..last of the loop, one after the other
RECURSIVE post_wonky_from(_, _, _, _)
post_wonky_from(first, last, upto, total) ==
  IF first > last THEN total
  ELSE IF first = last THEN loop_turn(period_start(first), upto, total)
  ELSE LET mid == (first + last) \div 2
       IN  CHOOSE r \in
             { post_wonky_from(mid + 1, last, upto, t) :
                 t \in {post_wonky_from(first, mid, upto, total)} } : TRUE

cumulative_post_wonky_sats(h) ==
  IF h <= WONKY_ERA_LEN THEN 0
  ELSE post_wonky_from(0, CHOOSE i \in 0..((h \div 100000) + 1) :
                             period_start(i) < h /\ period_start(i + 1) >= h,
                          h, 0)

dogecoin_starting_sats(h) ==
  IF h < StartingSatsLen THEN STARTING_SATS(h)
  ELSE saturating_add(STARTING_SATS(StartingSatsLen - 1),
                      cumulative_post_wonky_sats(h))

\* the loop of Epoch::from past the wonky era
RECURSIVE epoch_loop(_, _, _)
epoch_loop(h, cumulative, target) ==
  LET subsidy == dogecoin_block_subsidy(h)
  IN  IF cumulative + subsidy > target \/ subsidy = 0 THEN h
      ELSE IF h + 1 > 10000000 THEN h + 1
      ELSE epoch_loop(h + 1, cumulative + subsidy, target)

\* impl From<Koinu> for Epoch, for a coin below u64::MAX: the binary search
\* gives Ok(i) when the coin is STARTING_SATS[i] and else Err(i), i being
\* the number of entries below the coin
Epoch_from(target) ==
  LET i == IF target \div WonkySubsidy >= StartingSatsLen THEN StartingSatsLen
           ELSE IF target % WonkySubsidy = 0 THEN target \div WonkySubsidy
           ELSE (target \div WonkySubsidy) + 1
      found == target % WonkySubsidy = 0 /\ target \div WonkySubsidy < StartingSatsLen
      wonky_total == STARTING_SATS(StartingSatsLen - 1)
  IN  IF found THEN i
      ELSE IF i = 0 THEN 0
      ELSE IF i < StartingSatsLen THEN i - 1
      ELSE IF target < wonky_total THEN StartingSatsLen - 1
      ELSE epoch_loop(WONKY_ERA_LEN, wonky_total, target)

\* how far from a boundary of the schedule the heights asked for lie
EpochWindow == 5

\* the first height whose coins no longer fit below u64::MAX
SaturationHeight == 8999437

\* the heights asked for: the first ones and those around the end of the
\* wonky era, the steps of the schedule, the height where the u64 is full
\* and the cap of the loop of Epoch::from
HeightsAsked ==
  (0..(2 * EpochWindow))
  \cup UNION { (b - EpochWindow)..(b + EpochWindow) :
                b \in {WONKY_ERA_LEN, 200000, 300000, 400000, 500000, 600000,
                       SaturationHeight, 10000000, 20000000} }

\* the heights near enough to the wonky era for the loop of Epoch::from to
\* be followed step by step
EpochFollowed(h) == h <= WONKY_ERA_LEN + EpochWindow

InitEpoch ==
  /\ InitLedgers
  /\ IdleUpdater
  /\ IdleSource
  /\ IdlePrefetch
  /\ sat_range = None
  /\ sat_value = None
  /\ sat_loaded = None
  /\ sat_tx = None
  /\ sat_result = None
  /\ sat_block = None
  /\ sat_block_result = None
  /\ amount_in = None
  /\ amount_out = None
  /\ batch_in = None
  /\ batch_out = None
  /\ serve_in = None
  /\ serve_out = None
  /\ epoch_in \in { Some(h) : h \in HeightsAsked }
  /\ epoch_out = None
  /\ shared_headers = None
  /\ write_lock = None
  /\ updaters = None

\* Height::subsidy and Height::starting_sat of the height and of the next
\* one, and Epoch::from of the first and the last coin of the height
AskEpoch ==
  /\ epoch_in # None
  /\ epoch_out = None
  /\ \E start \in {dogecoin_starting_sats(epoch_in[1])},
        next \in {dogecoin_starting_sats(epoch_in[1] + 1)},
        subsidy \in {dogecoin_block_subsidy(epoch_in[1])} :
       epoch_out' =
         Some([starting_sat |-> start,
               next_starting_sat |-> next,
               subsidy |-> subsidy,
               epoch_of_first |-> IF EpochFollowed(epoch_in[1])
                                  THEN Some(Epoch_from(start)) ELSE None,
               epoch_of_last |-> IF EpochFollowed(epoch_in[1])
                                 THEN Some(Epoch_from(start + subsidy - 1))
                                 ELSE None])
  /\ UNCHANGED <<sat_range, sat_value, sat_loaded, sat_tx, sat_result, sat_block,
                 sat_block_result, amount_in, amount_out, batch_in, batch_out,
                 serve_in, serve_out, epoch_in,
                 shared_headers, write_lock, updaters>>
  /\ UNCHANGED <<drcVars, dnsVars, runVars, srcVars, fetchVars>>

NextEpoch == AskEpoch

SpecEpoch == InitEpoch /\ [][NextEpoch]_vars

\* C37: the coin numbering is continuous across all heights: for every
\* height h, dogecoin_starting_sats(h + 1) = dogecoin_starting_sats(h) +
\* dogecoin_block_subsidy(h), at the boundary between the wonky era and the
\* closed-form schedule too, so that the subsidy ranges of two blocks never
\* overlap, and Epoch::from of a coin is the height whose range holds it.
C37_ContinuousNumbering ==
  epoch_out # None =>
    /\ epoch_out[1].starting_sat # U64_MAX
    /\ epoch_out[1].next_starting_sat # U64_MAX
    /\ epoch_out[1].subsidy > 0
    /\ epoch_out[1].next_starting_sat
         = epoch_out[1].starting_sat + epoch_out[1].subsidy
    /\ epoch_out[1].epoch_of_first \in {None, Some(epoch_in[1])}
    /\ epoch_out[1].epoch_of_last \in {None, Some(epoch_in[1])}

----------------------------------------------------------------------------
(* Two updaters on one store (update_index, the commit in mid-run) *)

UpdaterIds == {1, 2}

SharedBlocks == 4   \* blocks the upstream chain has for the two updaters

MaxUpdates == 2     \* calls of update_index by one updater in one behaviour

\* what index_block inserts into HEIGHT_TO_BLOCK_HEADER at a height; the
\* writer is kept to tell the writes of the two updaters apart
HeaderEntry(h, u) == [header |-> h, writer |-> u]

\* the stored tip + 1: range(0..).next_back() of HEIGHT_TO_BLOCK_HEADER,
\* height + 1, or 0 when the table is empty
stored_height(table) ==
  IF DOMAIN table = {} THEN 0
  ELSE (CHOOSE h \in DOMAIN table : \A x \in DOMAIN table : x <= h) + 1

\* an updater that goes on whatever the stored tip is
stale_Never(stored, own) == FALSE

\* `height != self.height` after the write transaction was begun again
stale(stored, own) == stored # own

\* an updater before its first call of update_index
FreshUpdater ==
  [pc |-> "idle", height |-> 0, uncommitted |-> 0, wtx |-> <<>>, updates |-> 0]

InitShared ==
  /\ InitLedgers
  /\ IdleUpdater
  /\ IdleSource
  /\ IdlePrefetch
  /\ sat_range = None
  /\ sat_value = None
  /\ sat_loaded = None
  /\ sat_tx = None
  /\ sat_result = None
  /\ sat_block = None
  /\ sat_block_result = None
  /\ amount_in = None
  /\ amount_out = None
  /\ batch_in = None
  /\ batch_out = None
  /\ serve_in = None
  /\ serve_out = None
  /\ epoch_in = None
  /\ epoch_out = None
  /\ shared_headers = <<>>
  /\ write_lock = None
  /\ updaters = [u \in UpdaterIds |-> FreshUpdater]

otherSharedVars ==
  <<sat_range, sat_value, sat_loaded, sat_tx, sat_result, sat_block,
    sat_block_result, amount_in, amount_out, batch_in, batch_out,
    serve_in, serve_out, epoch_in, epoch_out>>

\* The caller begins a write transaction, which waits until no other is
\* open, and calls update_index with an updater that stands at the stored
\* tip + 1
BeginUpdate(u) ==
  /\ updaters # None
  /\ updaters[u].pc \in {"idle", "returned", "stopped"}
  /\ updaters[u].updates < MaxUpdates
  /\ write_lock = None
  /\ write_lock' = Some(u)
  /\ updaters' = [updaters EXCEPT ![u] =
                    [pc |-> "running",
                     height |-> stored_height(shared_headers),
                     uncommitted |-> 0,
                     wtx |-> shared_headers,
                     updates |-> @.updates + 1]]
  /\ UNCHANGED shared_headers
  /\ UNCHANGED otherSharedVars
  /\ UNCHANGED <<drcVars, dnsVars, runVars, srcVars, fetchVars>>

\* One pass of the loop up to begin_write: index_block writes the header of
\* the updater's height and moves the height on; when the commit interval
\* is reached or a savepoint is required the write transaction is committed,
\* and the updater then waits to begin the next one
IndexSharedBlock(u) ==
  /\ updaters # None
  /\ updaters[u].pc = "running"
  /\ write_lock = Some(u)
  /\ updaters[u].height < SharedBlocks
  /\ \E savepoint_required \in BOOLEAN :
       LET own == updaters[u]
           w == Insert(own.wtx, own.height, HeaderEntry(own.height, u))
       IN  IF own.uncommitted + 1 = CommitInterval \/ savepoint_required
           THEN /\ shared_headers' = w
                /\ write_lock' = None
                /\ updaters' = [updaters EXCEPT ![u] =
                                  [@ EXCEPT !.pc = "reopening",
                                            !.height = @ + 1,
                                            !.uncommitted = 0,
                                            !.wtx = <<>>]]
           ELSE /\ updaters' = [updaters EXCEPT ![u] =
                                  [@ EXCEPT !.height = @ + 1,
                                            !.uncommitted = @ + 1,
                                            !.wtx = w]]
                /\ UNCHANGED <<shared_headers, write_lock>>
  /\ UNCHANGED otherSharedVars
  /\ UNCHANGED <<drcVars, dnsVars, runVars, srcVars, fetchVars>>

\* begin_write returns and the stored tip is read again: when the tip + 1 is
\* not the updater's height the loop is left, nothing is uncommitted, and
\* update_index returns, which drops the write transaction
ReopenWrite(u) ==
  /\ updaters # None
  /\ updaters[u].pc = "reopening"
  /\ write_lock = None
  /\ IF stale(stored_height(shared_headers), updaters[u].height)
     THEN /\ updaters' = [updaters EXCEPT ![u] = [@ EXCEPT !.pc = "stopped"]]
          /\ UNCHANGED write_lock
     ELSE /\ updaters' = [updaters EXCEPT ![u] =
                            [@ EXCEPT !.pc = "running", !.wtx = shared_headers]]
          /\ write_lock' = Some(u)
  /\ UNCHANGED shared_headers
  /\ UNCHANGED otherSharedVars
  /\ UNCHANGED <<drcVars, dnsVars, runVars, srcVars, fetchVars>>

\* The loop ends (the block channel is closed, or shutdown was requested
\* after a pass): the uncommitted blocks are committed, else the write
\* transaction is dropped
EndSharedUpdate(u) ==
  /\ updaters # None
  /\ updaters[u].pc = "running"
  /\ write_lock = Some(u)
  /\ shared_headers' = IF updaters[u].uncommitted > 0 THEN updaters[u].wtx
                       ELSE shared_headers
  /\ write_lock' = None
  /\ updaters' = [updaters EXCEPT ![u] =
                    [@ EXCEPT !.pc = "returned", !.uncommitted = 0, !.wtx = <<>>]]
  /\ UNCHANGED otherSharedVars
  /\ UNCHANGED <<drcVars, dnsVars, runVars, srcVars, fetchVars>>

NextShared ==
  \/ \E u \in UpdaterIds : BeginUpdate(u)
  \/ \E u \in UpdaterIds : IndexSharedBlock(u)
  \/ \E u \in UpdaterIds : ReopenWrite(u)
  \/ \E u \in UpdaterIds : EndSharedUpdate(u)

SpecShared == InitShared /\ [][NextShared]_vars

\* the header table has an entry for every height below its tip
GapFree(table) == DOMAIN table = 0..(stored_height(table) - 1)

\* C39: with two updaters on one store, an updater that finds after a commit
\* in mid-run that the stored tip + 1 is not its own height stops without
\* writing anything more; no committed height is ever written again, by
\* either updater, and the header table has no gaps
C39_StaleUpdaterStops ==
  /\ [](updaters # None => GapFree(shared_headers))
  /\ [][updaters # None =>
          /\ \A h \in DOMAIN shared_headers :
               /\ h \in DOMAIN shared_headers'
               /\ shared_headers'[h] = shared_headers[h]
          /\ \A u \in UpdaterIds :
               (/\ updaters[u].pc = "reopening"
                /\ updaters'[u].pc # "reopening"
                /\ stored_height(shared_headers) # updaters[u].height)
               => (updaters'[u].pc = "stopped" /\ shared_headers' = shared_headers)
          /\ \A u \in UpdaterIds :
               updaters[u].pc = "stopped" =>
                 \/ updaters'[u] = updaters[u]
                 \/ updaters'[u].updates > updaters[u].updates]_vars

\* an updater has stopped at the check: the height it was about to index was
\* written by the other updater while it waited for its write transaction
C39_Witness ==
  /\ updaters # None
  /\ \E u \in UpdaterIds :
       /\ updaters[u].pc = "stopped"
       /\ updaters[u].height \in DOMAIN shared_headers
       /\ shared_headers[updaters[u].height].writer # u
       /\ \E h \in DOMAIN shared_headers : shared_headers[h].writer = u

----------------------------------------------------------------------------
(* Reading the coin-range runs *)

\* the ranges of a sequence of packed ranges
RECURSIVE Ranges(_)
Ranges(chunks) ==
  IF chunks = <<>> THEN <<>> ELSE <<unpack(Head(chunks))>> \o Ranges(Tail(chunks))

\* the coins of a sequence of ranges
RECURSIVE RangesTotal(_)
RangesTotal(ranges) ==
  IF ranges = <<>> THEN 0
  ELSE (Head(ranges)[2] - Head(ranges)[1]) + RangesTotal(Tail(ranges))

RECURSIVE SeqSum(_)
SeqSum(s) == IF s = <<>> THEN 0 ELSE Head(s) + SeqSum(Tail(s))

\* the inputs carry at least as many coins as the outputs spend
Sufficient(tx) ==
  RangesTotal(Ranges(flat_map(tx.input_sat_ranges))) >= SeqSum(tx.output)

\* outs, with the halves of split ranges rejoined, is ins
RECURSIVE Rejoined(_, _)
Rejoined(outs, ins) ==
  IF outs = <<>> THEN ins = <<>>
  ELSE IF ins = <<>> THEN FALSE
  ELSE IF Head(outs) = Head(ins) THEN Rejoined(Tail(outs), Tail(ins))
  ELSE /\ Head(outs)[1] = Head(ins)[1]
       /\ Head(outs)[1] < Head(outs)[2]
       /\ Head(outs)[2] < Head(ins)[2]
       /\ Rejoined(Tail(outs), <<<<Head(outs)[2], Head(ins)[2]>>>> \o Tail(ins))

\* the ranges of output 0, output 1, ..., then the ranges added to the leftover
AssignedInOrder ==
  Ranges(flat_map(sat_result[1].output_utxo_entries)
         \o SubSeq(sat_result[1].leftover_sat_ranges,
                   Len(sat_tx[1].leftover_sat_ranges) + 1,
                   Len(sat_result[1].leftover_sat_ranges)))

SatsIndexed == sat_tx # None /\ sat_result # None

C20_PackUnpack ==
  (sat_range # None /\ sat_loaded # None /\ InDomain(sat_range[1])) =>
    sat_loaded[1] = sat_range[1]

\* the largest base with the largest delta has made the round trip
C20_Witness ==
  /\ sat_range # None
  /\ sat_loaded # None
  /\ sat_range[1] = <<0..50, Add64(0..50, 0..32)>>
  /\ sat_loaded[1] = sat_range[1]

SatBlockIndexed == sat_block # None /\ sat_block_result # None

\* the positions of block.txdata in block order, the coinbase (0) last
BlockOrder(txdata) ==
  [i \in 1..Len(txdata) |-> IF i < Len(txdata) THEN i ELSE 0]

\* the coin range the subsidy of the block at height h creates
SubsidyRange(h) ==
  <<Units(Height_starting_sat(h)),
    Units(Height_starting_sat(h)) + Units(Height_subsidy(h))>>

\* the ranges the transactions after the coinbase do not assign to their
\* outputs, in block order, from position i of txdata on
RECURSIVE Unassigned(_, _)
Unassigned(txdata, i) ==
  IF i > Len(txdata) THEN <<>>
  ELSE Ranges(index_transaction_sats(txdata[i].output,
                                     txdata[i].input_sat_ranges,
                                     <<>>).leftover_sat_ranges)
       \o Unassigned(txdata, i + 1)

\* the coins the coinbase can pay out: the subsidy and what the other
\* transactions left over
CoinbaseAvailable(block) ==
  RangesTotal(<<SubsidyRange(block.height)>> \o Unassigned(block.txdata, 2))

\* C23: in each block the transactions after the coinbase are processed in
\* block order before the coinbase; the ranges their outputs do not consume
\* are appended, in order, to the coinbase input tape after the block's
\* subsidy range; the ranges the coinbase outputs do not consume are
\* appended to the entry of the lost-coin sink, merged with what it holds,
\* and the lost-coin total grows by exactly their combined size.
C23_BlockCoinFlow ==
  SatBlockIndexed =>
    LET block == sat_block[1]
        r == sat_block_result[1]
        paid == SeqSum(block.txdata[1].output)
    IN  /\ r.order = BlockOrder(block.txdata)
        /\ Ranges(r.coinbase_inputs) =
             <<SubsidyRange(block.height)>> \o Unassigned(block.txdata, 2)
        /\ paid <= CoinbaseAvailable(block) =>
             /\ ~r.panicked
             /\ r.lost_entry = merged(block.lost_entry, r.lost_sat_ranges)
             /\ RangesTotal(Ranges(r.lost_sat_ranges)) =
                  CoinbaseAvailable(block) - paid
             /\ r.lost_koinu = block.lost_koinu + (CoinbaseAvailable(block) - paid)

----------------------------------------------------------------------------
(* The block source: BlkReader (src/index/updater/blk_reader.rs),          *)
(* Updater::fetch_blocks_from and get_block_with_retries, and the loop of   *)
(* update_index that takes the blocks and calls index_block                 *)

\* A block is its header's hash, its header's previous-block hash and the
\* height it has in the chain it belongs to.

\* the block of the node's first main chain at height h
MainBlock(h) ==
  [hash |-> 100 + h, prev |-> IF h = 0 THEN 0 ELSE 100 + h - 1, height |-> h]

\* a valid block at height h >= 1 that lost the race for the main chain
StaleBlock(h) == [hash |-> 200 + h, prev |-> 100 + h - 1, height |-> h]

\* the block at height h of the chain that forks off the main chain at height f
ForkBlock(h, f) ==
  [hash |-> 300 + h, prev |-> IF h = f THEN 100 + h - 1 ELSE 300 + h - 1,
   height |-> h]

BLOCK_HAVE_DATA == 8

BLOCK_FAILED_VALID == 32

BLOCK_FAILED_CHILD == 64

\* status & flag != 0, for a flag that is a power of two
HasFlag(status, flag) == (status \div flag) % 2 = 1

\* a record of the block-location database, its varints read: the block's
\* data is at data_offset of file file_idx
Record(block, status) ==
  [height |-> block.height, status |-> status, file_idx |-> 0,
   data_offset |-> block.hash]

\* parse_index_record
parse_index_record(value) ==
  IF ~HasFlag(value.status, BLOCK_HAVE_DATA) THEN None
  ELSE IF HasFlag(value.status, BLOCK_FAILED_VALID)
          \/ HasFlag(value.status, BLOCK_FAILED_CHILD) THEN None
  ELSE Some(<<value.height, value.file_idx, value.data_offset>>)

\* the loop of build_block_index over the records in key order:
\* result.entry(height).or_insert((file_idx, offset))
RECURSIVE IndexRecords(_, _)
IndexRecords(index, records) ==
  IF records = <<>> THEN index
  ELSE LET parsed == parse_index_record(Head(records))
       IN  IndexRecords(
             IF parsed = None \/ parsed[1][1] \in DOMAIN index THEN index
             ELSE Insert(index, parsed[1][1], <<parsed[1][2], parsed[1][3]>>),
             Tail(records))

\* build_block_index
build_block_index(records) == IndexRecords(EmptyTable, records)

\* BlkReader::open: no reader without a block-location database
BlkReader_open(records) ==
  IF records = None THEN None ELSE Some(build_block_index(records[1]))

\* the block the node wrote at that place of its block files
BlockAt(file_idx, data_offset) ==
  IF data_offset >= 200 THEN StaleBlock(data_offset - 200)
  ELSE MainBlock(data_offset - 100)

\* the network magic that opens a record of a block file
Magic == "c0c0c0c0"

\* What can be wrong with the record of a block: its magic, its block_size
\* (one too small, one too large), or its block bytes
Damages == {"none", "magic", "short", "long", "bytes"}

\* the serialized block; a byte stands for a field
serialize(block) == <<block.hash, block.prev, block.height>>

\* deserialize: the bytes must be one whole block
deserialize(bytes) ==
  IF Len(bytes) = 3 /\ \A i \in 1..3 : bytes[i] \in Nat
  THEN Some([hash |-> bytes[1], prev |-> bytes[2], height |-> bytes[3]])
  ELSE None

\* The record of a block in its block file: magic, block_size, the block
\* bytes; `next` is what the file holds after the record
DiskRecord(block, damage) ==
  [magic |-> IF damage = "magic" THEN "00000000" ELSE Magic,
   block_size |-> CASE damage = "short" -> Len(serialize(block)) - 1
                    [] damage = "long" -> Len(serialize(block)) + 1
                    [] OTHER -> Len(serialize(block)),
   bytes |-> IF damage = "bytes"
             THEN <<block.hash, block.prev, -1>>
             ELSE serialize(block),
   next |-> <<0>>]

\* read_block_from_file: seeks to data_offset - 4, where block_size is,
\* reads block_size bytes and deserializes them; None is an Err
read_block_from_file(file_idx, data_offset, damage) ==
  LET record == DiskRecord(BlockAt(file_idx, data_offset), damage)
      data == record.bytes \o record.next
  IN  IF record.block_size > Len(data) THEN None
      ELSE deserialize(SubSeq(data, 1, record.block_size))

\* BlkReader::get: "none" for a height the index does not have, "err" when
\* the read fails
BlkReader_get(index, h, damage) ==
  IF h \notin DOMAIN index THEN [kind |-> "none"]
  ELSE CHOOSE r \in
         { IF b = None THEN [kind |-> "err"] ELSE [kind |-> "block", block |-> b[1]] :
             b \in {read_block_from_file(index[h][1], index[h][2], damage)} } :
         TRUE

\* a wait that grows by two seconds with every error
backoff_Linear(errors) == 2 * errors

\* let seconds = 1 << errors
backoff(errors) == 2 ^ errors

\* get_block_with_retries outside cfg!(test), when the first `failures`
\* requests fail: TRUE when it gives up
RECURSIVE GivesUp(_, _)
GivesUp(errors, failures) ==
  IF failures = 0 THEN FALSE
  ELSE LET seconds == backoff(errors + 1)
       IN  IF seconds > 120 THEN TRUE ELSE GivesUp(errors + 1, failures - 1)

\* get_block_with_retries outside cfg!(test), when the first `failures`
\* requests fail: the seconds of its calls of thread::sleep, in order
RECURSIVE Sleeps(_, _)
Sleeps(errors, failures) ==
  IF failures = 0 THEN <<>>
  ELSE LET seconds == backoff(errors + 1)
       IN  IF seconds > 120 THEN <<>>
           ELSE <<seconds>> \o Sleeps(errors + 1, failures - 1)

\* get_block_with_retries: "err", or what the node's main chain has at the
\* height, and how it slept before it returned
get_block_with_retries(node, h, failures) ==
  IF GivesUp(0, failures) THEN [kind |-> "err", sleeps |-> Sleeps(0, failures)]
  ELSE IF h < Len(node)
    THEN [kind |-> "block", block |-> node[h + 1], sleeps |-> Sleeps(0, failures)]
  ELSE [kind |-> "none", sleeps |-> Sleeps(0, failures)]

\* a channel whose send never waits
has_room_Unbounded(queue) == TRUE

\* tx.send on the sync_channel returns once the queue has room for the
\* block: TRUE when it does not have to wait
has_room(queue) == Len(queue) < BlockChannelCapacity

\* the RPC path of the thread's loop
fetch_by_rpc(node, h, failures) ==
  LET r == get_block_with_retries(node, h, failures)
  IN  IF r.kind = "block"
      THEN [kind |-> "block", block |-> r.block, via |-> "rpc", sleeps |-> r.sleeps]
      ELSE [kind |-> r.kind, via |-> "rpc", sleeps |-> r.sleeps]

\* the pass of the thread's loop without the look at the height limit
fetch_block_NoLimit(reader, node, h, limit, damage, failures) ==
  IF reader # None /\ BlkReader_get(reader[1], h, damage).kind = "block"
    THEN [kind |-> "block", block |-> BlkReader_get(reader[1], h, damage).block,
          via |-> "disk", sleeps |-> <<>>]
  ELSE fetch_by_rpc(node, h, failures)

\* One pass of the loop of the thread of fetch_blocks_from, up to the send:
\* "limit", "block" (to be sent), "none" or "err", and where the answer is
\* from
fetch_block(reader, node, h, limit, damage, failures) ==
  IF limit # None /\ h >= limit[1]
    THEN [kind |-> "limit", via |-> "none", sleeps |-> <<>>]
  ELSE IF reader # None /\ BlkReader_get(reader[1], h, damage).kind = "block"
    THEN [kind |-> "block", block |-> BlkReader_get(reader[1], h, damage).block,
          via |-> "disk", sleeps |-> <<>>]
  ELSE fetch_by_rpc(node, h, failures)

\* the header index_block stores for a block
HeaderOf(block) == [hash |-> block.hash, prev |-> block.prev]

\* Reorg::detect_reorg: the block's previous-block hash against the hash
\* stored at height h - 1
detect_reorg(block, h, w) ==
  h = 0 \/ w.headers[h].hash = block.prev

\* height_to_block_header.insert(&h, header): the header of height h is at
\* position h + 1 of the table
insert_header(headers, h, header) ==
  [i \in DOMAIN headers \cup {h + 1} |-> IF i = h + 1 THEN header ELSE headers[i]]

\* index_block that writes before it looks for a reorg
index_block_WriteFirst(w, block, h) ==
  [ok |-> detect_reorg(block, h, w),
   wtx |-> [headers |-> insert_header(w.headers, h, HeaderOf(block)),
            written |-> w.written \cup {block.hash}]]

\* index_block that stores no header
index_block_NoHeader(w, block, h) ==
  IF ~detect_reorg(block, h, w) THEN [ok |-> FALSE, wtx |-> w]
  ELSE [ok |-> TRUE,
        wtx |-> [headers |-> w.headers,
                 written |-> w.written \cup {block.hash}]]

\* Updater::index_block: the tables of the write transaction after it, and
\* whether it returned Ok
index_block(w, block, h) ==
  IF ~detect_reorg(block, h, w) THEN [ok |-> FALSE, wtx |-> w]
  ELSE [ok |-> TRUE,
        wtx |-> [headers |-> insert_header(w.headers, h, HeaderOf(block)),
                 written |-> w.written \cup {block.hash}]]

\* update_index that commits only when the commit interval is reached
commit_due_IntervalOnly(n, test, savepoint_required) ==
  n = CommitInterval

\* update_index: whether it commits after a block, the n-th since the last
\* commit
commit_due(n, test, savepoint_required) ==
  n = CommitInterval \/ (~test /\ savepoint_required)

\* Reorg::is_savepoint_required: a savepoint is due every SavepointInterval
\* heights
is_savepoint_required(h) == h % SavepointInterval = 0

\* Reorg::update_savepoints, called by commit: the committed state joins the
\* savepoints when one is due, and only the last MaxSavepoints are kept
update_savepoints(saved, committed, h) ==
  IF ~is_savepoint_required(h) THEN saved
  ELSE LET all == Append(saved, committed)
       IN  IF Len(all) > MaxSavepoints THEN Tail(all) ELSE all

\* the first height at which the headers differ from the node's main chain
RECURSIVE ForkPoint(_, _, _)
ForkPoint(headers, node, h) ==
  IF h >= Len(headers) \/ h >= Len(node) THEN h
  ELSE IF headers[h + 1].hash # node[h + 1].hash THEN h
  ELSE ForkPoint(headers, node, h + 1)

\* the positions of the savepoints that hold no block at or above height f
Covering(saved, f) == {i \in 1..Len(saved) : Len(saved[i].headers) <= f}

Max(S) == CHOOSE x \in S : \A y \in S : y <= x

\* the chain of the node
FirstChain == [h \in 1..NodeBlocks |-> MainBlock(h - 1)]

\* the chain of the node after it has switched to the branch that forks off
\* at height f
ForkedChain(f) ==
  [h \in 1..NodeBlocks |-> IF h - 1 < f THEN MainBlock(h - 1) ELSE ForkBlock(h - 1, f)]

\* status of a record: valid with data, valid without data, failed with data
StatusData == 29

StatusHeaderOnly == 5

StatusFailed == 61

\* the block-location database in key order (the key is the block's hash,
\* so the blocks of one height come in any order), or no database
RecordLists ==
  { None,
    Some(<<Record(MainBlock(0), StatusData), Record(MainBlock(1), StatusData)>>),
    Some(<<Record(MainBlock(0), StatusData), Record(StaleBlock(1), StatusData),
           Record(MainBlock(1), StatusData)>>),
    Some(<<Record(MainBlock(1), StatusData), Record(MainBlock(0), StatusData),
           Record(StaleBlock(1), StatusData)>>),
    Some(<<Record(MainBlock(0), StatusData), Record(StaleBlock(1), StatusFailed),
           Record(MainBlock(1), StatusData), Record(MainBlock(2), StatusHeaderOnly)>>) }

\* index.height_limit
HeightLimits == {None, Some(NodeBlocks - 1)}

\* how many requests in a row fail when a block is fetched by RPC
RpcFailures == {0, 2, 6, 7, 9}

EmptyIndex == [headers |-> <<>>, written |-> {}]

InitSource ==
  /\ InitLedgers
  /\ IdleSats
  /\ IdlePrefetch
  /\ chain = <<>>
  /\ store = EmptyIndex
  /\ wtx = EmptyIndex
  /\ utxo_cache = EmptyTable
  /\ uncommitted = 0
  /\ starting_index_height = 0
  /\ outputs_traversed = 0
  /\ sat_ranges_since_flush = 0
  /\ running = "no"
  /\ shutting_down = FALSE
  /\ commit_log = <<>>
  /\ node_chain = FirstChain
  /\ node_reorged = FALSE
  /\ blk_records \in RecordLists
  /\ fast_reader = None
  /\ fetch_height = 0
  /\ fetch_ended = TRUE
  /\ rx = <<>>
  /\ delivered = <<>>
  /\ rpc_gave_up = FALSE
  /\ last_fetch = None
  /\ height_limit \in HeightLimits
  /\ integration_test \in BOOLEAN
  /\ result = "none"
  /\ savepoints = <<>>
  /\ unrecoverably_reorged = FALSE
  /\ rolled_back = FALSE

otherSourceVars ==
  <<next_txid, cur_tx, pre, token_table, balance_table, transferable_table,
    outpoint_to_transfer, drc20_tokens, dnsVars, satVars, fetchVars, chain,
    utxo_cache, outputs_traversed, sat_ranges_since_flush, commit_log>>

\* update_index up to its loop: the start height, fetch_blocks_from (which
\* opens the BlkReader and starts the thread) and the write transaction
UpdateIndex ==
  /\ running = "no"
  /\ result # "reorg"
  /\ ~unrecoverably_reorged
  /\ height' = Len(store.headers)
  /\ starting_index_height' = Len(store.headers)
  /\ wtx' = store
  /\ uncommitted' = 0
  /\ fast_reader' = BlkReader_open(blk_records)
  /\ fetch_height' = Len(store.headers)
  /\ fetch_ended' = FALSE
  /\ rx' = <<>>
  /\ delivered' = <<>>
  /\ rpc_gave_up' = FALSE
  /\ last_fetch' = None
  /\ result' = "none"
  /\ running' = "loop"
  /\ shutting_down' = FALSE
  /\ UNCHANGED <<store, node_chain, node_reorged, blk_records, height_limit, integration_test,
                 savepoints, unrecoverably_reorged, rolled_back>>
  /\ UNCHANGED otherSourceVars

\* One pass of the loop of the thread of fetch_blocks_from; tx.send blocks
\* while the channel is full and fails when the receiver is gone.  Failures
\* are the numbers of RPC requests that may fail in a row in this pass.
FetchBlockWith(Failures) ==
  /\ ~fetch_ended
  /\ \E damage \in Damages, failures \in Failures :
       \E f \in {fetch_block(fast_reader, node_chain, fetch_height, height_limit,
                             damage, failures)} :
         /\ last_fetch' = Some([corrupt |-> /\ fast_reader # None
                                            /\ fetch_height \in DOMAIN fast_reader[1]
                                            /\ damage # "none",
                                kind |-> f.kind, via |-> f.via,
                                failures |-> IF f.via = "rpc" THEN failures ELSE 0,
                                sleeps |-> f.sleeps])
         /\ (f.kind = "block" /\ running = "loop") => has_room(rx)
         /\ IF f.kind = "block" /\ running = "loop"
            THEN /\ rx' = Append(rx, f.block)
                 /\ fetch_height' = fetch_height + 1
                 /\ fetch_ended' = FALSE
            ELSE /\ fetch_ended' = TRUE
                 /\ UNCHANGED <<rx, fetch_height>>
         /\ rpc_gave_up' = (rpc_gave_up \/ f.kind = "err")
  /\ UNCHANGED <<height, store, wtx, uncommitted, starting_index_height, running,
                 shutting_down, node_chain, node_reorged, blk_records, fast_reader,
                 delivered, height_limit, integration_test, result, savepoints,
                 unrecoverably_reorged, rolled_back>>
  /\ UNCHANGED otherSourceVars

FetchBlock == FetchBlockWith(RpcFailures)

\* a pass of that loop in which no RPC request fails
FetchBlockUnfailing == FetchBlockWith({0})

\* One pass of the loop of update_index: rx.recv(), index_block, the commit
\* when one is due, the look at SHUTTING_DOWN
IndexNextBlock ==
  /\ running = "loop"
  /\ rx # <<>>
  /\ rx' = Tail(rx)
  /\ delivered' = Append(delivered, Head(rx))
  /\ \E r \in {index_block(wtx, Head(rx), height)} :
       IF ~r.ok
       THEN /\ wtx' = r.wtx
            /\ running' = "no"
            /\ result' = "reorg"
            /\ UNCHANGED <<height, store, uncommitted, savepoints>>
       ELSE /\ height' = height + 1
            /\ wtx' = r.wtx
            /\ IF commit_due(uncommitted + 1, integration_test,
                             is_savepoint_required(height + 1))
               THEN /\ store' = r.wtx
                    /\ uncommitted' = 0
                    /\ savepoints' = update_savepoints(savepoints, r.wtx, height + 1)
               ELSE /\ uncommitted' = uncommitted + 1
                    /\ UNCHANGED <<store, savepoints>>
            /\ running' = IF shutting_down THEN "ended" ELSE "loop"
            /\ UNCHANGED result
  /\ UNCHANGED <<starting_index_height, shutting_down, node_chain, node_reorged,
                 blk_records, fast_reader, fetch_height, fetch_ended, rpc_gave_up, last_fetch,
                 height_limit, integration_test, unrecoverably_reorged, rolled_back>>
  /\ UNCHANGED otherSourceVars

\* update_index after its loop, which ends on SHUTTING_DOWN or when rx.recv()
\* fails because the thread has ended and the channel is empty
EndUpdateIndex ==
  /\ running = "ended" \/ (running = "loop" /\ rx = <<>> /\ fetch_ended)
  /\ IF uncommitted > 0
     THEN /\ store' = wtx
          /\ savepoints' = update_savepoints(savepoints, wtx, height)
     ELSE UNCHANGED <<store, savepoints>>
  /\ uncommitted' = 0
  /\ running' = "no"
  /\ result' = "ok"
  /\ UNCHANGED <<height, wtx, starting_index_height, shutting_down, node_chain,
                 node_reorged, blk_records, fast_reader, fetch_height, fetch_ended,
                 rx, delivered, rpc_gave_up, last_fetch, height_limit, integration_test, unrecoverably_reorged,
                 rolled_back>>
  /\ UNCHANGED otherSourceVars

\* The node switches to a branch that forks off its main chain
NodeReorg ==
  /\ ~node_reorged
  /\ \E f \in 1..(NodeBlocks - 1) : node_chain' = ForkedChain(f)
  /\ node_reorged' = TRUE
  /\ UNCHANGED <<height, store, wtx, uncommitted, starting_index_height, running,
                 shutting_down, blk_records, fast_reader, fetch_height, fetch_ended,
                 rx, delivered, rpc_gave_up, last_fetch, height_limit, integration_test, result, savepoints,
                 unrecoverably_reorged, rolled_back>>
  /\ UNCHANGED otherSourceVars

\* The index after update_index failed on a reorg: back to the most recent
\* savepoint below the fork point, or marked unrecoverably reorged
HandleReorg ==
  /\ running = "no"
  /\ result = "reorg"
  /\ LET f == ForkPoint(wtx.headers, node_chain, 0)
         covering == Covering(savepoints, f)
     IN  IF covering # {}
         THEN /\ store' = savepoints[Max(covering)]
              /\ wtx' = savepoints[Max(covering)]
              /\ savepoints' = SubSeq(savepoints, 1, Max(covering))
              /\ rolled_back' = TRUE
              /\ result' = "none"
              /\ UNCHANGED unrecoverably_reorged
         ELSE /\ unrecoverably_reorged' = TRUE
              /\ result' = "error"
              /\ UNCHANGED <<store, wtx, savepoints, rolled_back>>
  /\ UNCHANGED <<height, uncommitted, starting_index_height, running,
                 shutting_down, node_chain, node_reorged, blk_records, fast_reader,
                 fetch_height, fetch_ended, rx, delivered, rpc_gave_up, last_fetch,
                 height_limit, integration_test>>
  /\ UNCHANGED otherSourceVars

\* The signal handler sets SHUTTING_DOWN while the block-source run loops
ShutdownSource ==
  /\ running = "loop"
  /\ ~shutting_down
  /\ shutting_down' = TRUE
  /\ UNCHANGED <<height, store, wtx, uncommitted, starting_index_height, running,
                 node_chain, node_reorged, blk_records, fast_reader, fetch_height,
                 fetch_ended, rx, delivered, rpc_gave_up, last_fetch, height_limit, integration_test, result,
                 savepoints, unrecoverably_reorged, rolled_back>>
  /\ UNCHANGED otherSourceVars

NextSource ==
  \/ UpdateIndex
  \/ FetchBlock
  \/ IndexNextBlock
  \/ EndUpdateIndex
  \/ NodeReorg
  \/ HandleReorg
  \/ ShutdownSource

SpecSource == InitSource /\ [][NextSource]_vars

\* update_index while the node keeps its chain, no RPC request fails and no
\* shutdown is requested
NextSourceCalm ==
  \/ UpdateIndex
  \/ FetchBlockUnfailing
  \/ IndexNextBlock
  \/ EndUpdateIndex

\* The thread of fetch_blocks_from and the main task both keep running: a
\* pass of either loop that can be taken is taken in the end.  That
\* update_index is called again is not assumed.
SpecSourceCalm ==
  /\ InitSource
  /\ [][NextSourceCalm]_vars
  /\ WF_vars(FetchBlockUnfailing)
  /\ WF_vars(IndexNextBlock)
  /\ WF_vars(EndUpdateIndex)

----------------------------------------------------------------------------
(* One height served from the block files and by the node *)

\* the transactions of a block: a coinbase and, above the genesis block, one
\* more transaction
TxdataOf(b) ==
  IF b.height = 0 THEN <<[coinbase |-> TRUE, of |-> b.hash]>>
  ELSE <<[coinbase |-> TRUE, of |-> b.hash], [coinbase |-> FALSE, of |-> b.hash]>>

\* the Block the node has for b: what getblock returns and what the bytes
\* of its record in the block files deserialize to
BlockOf(b) == [header |-> HeaderOf(b), txdata |-> TxdataOf(b)]

\* Transaction::compute_txid
compute_txid(transaction) ==
  10 * transaction.of + (IF transaction.coinbase THEN 0 ELSE 1)

\* impl From<Block> for BlockData
BlockData_from(block) ==
  [header |-> block.header,
   txdata |-> [i \in 1..Len(block.txdata) |->
                 <<block.txdata[i], compute_txid(block.txdata[i])>>]]

\* the closure of get_block_with_retries: get_block_hash, then get_block at
\* or above first_index_height and get_block_header below it
get_block(node, h, first_index_height) ==
  IF h >= Len(node) THEN None
  ELSE IF h >= first_index_height THEN Some(BlockOf(node[h + 1]))
  ELSE Some([header |-> HeaderOf(node[h + 1]), txdata |-> <<>>])

\* the fast path of fetch_blocks_from: reader.get(height), and block.into()
\* for the block it returns
from_disk(reader, h, damage) ==
  LET r == BlkReader_get(reader, h, damage)
  IN  IF r.kind = "block" THEN Some(BlockData_from(BlockOf(r.block))) ELSE None

\* the RPC path of fetch_blocks_from when no request fails, and block.into()
\* for the block it returns
from_rpc(node, h, first_index_height) ==
  LET r == get_block(node, h, first_index_height)
  IN  IF r # None THEN Some(BlockData_from(r[1])) ELSE None

\* values of index.first_index_height
FirstIndexHeights == {0, 1, 2}

InitServe ==
  /\ InitLedgers
  /\ IdleUpdater
  /\ IdleSource
  /\ IdlePrefetch
  /\ sat_range = None
  /\ sat_value = None
  /\ sat_loaded = None
  /\ sat_tx = None
  /\ sat_result = None
  /\ sat_block = None
  /\ sat_block_result = None
  /\ amount_in = None
  /\ amount_out = None
  /\ batch_in = None
  /\ batch_out = None
  /\ \E h \in 0..(NodeBlocks - 1), first_index_height \in FirstIndexHeights,
        records \in RecordLists \ {None}, damage \in Damages :
       serve_in = Some([height |-> h, first_index_height |-> first_index_height,
                        records |-> records[1], damage |-> damage])
  /\ serve_out = None
  /\ epoch_in = None
  /\ epoch_out = None
  /\ shared_headers = None
  /\ write_lock = None
  /\ updaters = None

\* the height is served once by each path of the thread's loop
ServeBlock ==
  /\ serve_in # None
  /\ serve_out = None
  /\ \E disk \in {from_disk(build_block_index(serve_in[1].records),
                             serve_in[1].height, serve_in[1].damage)},
        rpc \in {from_rpc(FirstChain, serve_in[1].height,
                          serve_in[1].first_index_height)} :
       serve_out' = Some([disk |-> disk, rpc |-> rpc])
  /\ UNCHANGED <<sat_range, sat_value, sat_loaded, sat_tx, sat_result, sat_block,
                 sat_block_result, amount_in, amount_out, batch_in, batch_out,
                 serve_in, epoch_in, epoch_out,
                 shared_headers, write_lock, updaters>>
  /\ UNCHANGED <<drcVars, dnsVars, runVars, srcVars, fetchVars>>

NextServe == ServeBlock

SpecServe == InitServe /\ [][NextServe]_vars

\* C36: for every height, the block handed to the main task has the same
\* header and the same transaction list whether it was read from the
\* on-disk block files or fetched by RPC, heights below the first indexed
\* height included.
C36_SameBlockFromEitherSource ==
  (serve_out # None /\ serve_out[1].disk # None /\ serve_out[1].rpc # None)
    => serve_out[1].disk[1] = serve_out[1].rpc[1]

----------------------------------------------------------------------------
(* Reading the block-source runs *)

\* the headers are those of the blocks of the node's main chain
OnMainChain(headers) ==
  /\ Len(headers) <= Len(node_chain)
  /\ \A h \in 1..Len(headers) : headers[h] = HeaderOf(node_chain[h])

\* C13: for every height h the indexer has processed, absent a reorg, the
\* header stored at h is the header of the node's main-chain block at h,
\* whether the block was read from the block files or fetched by RPC, also
\* when the block-location database has several records for one height.
C13_StoredIsUpstream ==
  ~node_reorged => (OnMainChain(wtx.headers) /\ OnMainChain(store.headers))

\* C14: the thread of fetch_blocks_from hands blocks to the main task in
\* strictly consecutive increasing height order from the updater's start
\* height on, without gap, duplicate or reordering, whatever mix of disk
\* reads, disk errors and RPC fetches supplied them, and never a block at
\* or above the height limit.
C14_ConsecutiveHeights ==
  \A i \in 1..Len(delivered \o rx) :
    /\ (delivered \o rx)[i].height = starting_index_height + i - 1
    /\ height_limit # None => (delivered \o rx)[i].height < height_limit[1]

\* the reader has a block for height 1 but none for the last height below
\* the limit, and every block below the height limit was handed over
C14_Witness ==
  /\ fast_reader # None
  /\ 1 \in DOMAIN fast_reader[1]
  /\ height_limit # None
  /\ Len(delivered) = height_limit[1]
  /\ fetch_ended
  /\ ~rpc_gave_up
  /\ running = "loop"

\* the updater of update_index is at work
UpdaterLive == running \in {"loop", "ended"}

\* C24: every block is stored at exactly tip + 1: each successful
\* index_block writes one header at the updater's current height and then
\* raises that height by one, so after any sequence of indexed blocks the
\* heights present in the header table are exactly 0 .. height - 1, with no
\* gap and no height written twice (the header of height h is at position
\* h + 1).
C24_StoredAtTip ==
  [][/\ UpdaterLive' => DOMAIN wtx'.headers = 1..height'
     /\ (running = "loop" /\ (height' # height \/ wtx'.headers # wtx.headers)) =>
          /\ height' = height + 1
          /\ height + 1 \notin DOMAIN wtx.headers
          /\ DOMAIN wtx'.headers = DOMAIN wtx.headers \cup {height + 1}
          /\ \A i \in DOMAIN wtx.headers : wtx'.headers[i] = wtx.headers[i]]_vars

\* blocks were indexed after a rollback to a savepoint, some of them not yet
\* committed
C24_Witness ==
  /\ running = "loop"
  /\ rolled_back
  /\ uncommitted > 0
  /\ height >= 2
  /\ DOMAIN wtx.headers = 1..height
  /\ Len(store.headers) < height

\* C26: after each indexed block a commit happens exactly when the number
\* of blocks indexed since the last commit equals the commit interval or,
\* outside integration-test mode, the reorg detector requires a savepoint at
\* the current height; hence, for a commit interval >= 1, the number of
\* indexed but uncommitted blocks never exceeds the commit interval.
C26_CommitWhenDue ==
  [][/\ (running = "loop" /\ height' = height + 1) =>
          LET due == \/ uncommitted + 1 = CommitInterval
                     \/ ~integration_test /\ is_savepoint_required(height')
          IN  /\ due => (store' = wtx' /\ store' # store /\ uncommitted' = 0)
              /\ ~due => (store' = store /\ uncommitted' = uncommitted + 1)
     /\ uncommitted' <= CommitInterval]_vars

\* outside integration-test mode the first block of an update was committed
\* for a savepoint although the commit interval was not reached
C26_Witness ==
  /\ running = "loop"
  /\ ~integration_test
  /\ CommitInterval > 1
  /\ height = starting_index_height + 1
  /\ is_savepoint_required(height)
  /\ uncommitted = 0
  /\ Len(store.headers) = height

\* the thread of fetch_blocks_from makes a pass of its loop in this step
FetchPass ==
  /\ ~fetch_ended
  /\ running = "loop"
  /\ last_fetch' # None
  /\ fetch_height' # fetch_height \/ fetch_ended'

\* C27: when the on-disk record for height h is corrupt (malformed magic,
\* size, or block bytes), the producer does not deliver a block built from
\* that record: it fetches height h by RPC instead, and if the RPC fetch
\* also fails no block for h is delivered and the producer stops.
C27_CorruptRecordNotDelivered ==
  [][(FetchPass /\ last_fetch'[1].corrupt) =>
       /\ last_fetch'[1].via = "rpc"
       /\ last_fetch'[1].kind = "block" =>
            /\ fetch_height < Len(node_chain)
            /\ rx' = Append(rx, node_chain[fetch_height + 1])
       /\ last_fetch'[1].kind # "block" => (rx' = rx /\ fetch_ended')]_vars

\* C28: the block queue between the producer thread and the main task
\* never holds more than its capacity (32 blocks in the program,
\* BlockChannelCapacity here); when it is full the producer blocks until the
\* main task takes a block, and the queue never drops or overwrites a queued
\* block: while the loop of update_index runs, a step either appends one
\* block behind the queued ones or takes the oldest.
C28_QueueBounded ==
  [][/\ Len(rx') <= BlockChannelCapacity
     /\ (running = "loop" /\ running' # "no" /\ rx' # rx) =>
          \/ /\ Len(rx) < BlockChannelCapacity
             /\ Len(rx') = Len(rx) + 1
             /\ SubSeq(rx', 1, Len(rx)) = rx
             /\ delivered' = delivered
          \/ /\ rx # <<>>
             /\ rx' = Tail(rx)
             /\ delivered' = Append(delivered, Head(rx))
     /\ (running = "loop" /\ Len(rx) = BlockChannelCapacity) =>
          fetch_height' = fetch_height]_vars

\* the queue is full while the producer has the next block at hand
C28_Witness ==
  /\ running = "loop"
  /\ Len(rx) = BlockChannelCapacity
  /\ ~fetch_ended
  /\ fetch_height < Len(node_chain)
  /\ height_limit = None

\* C29: an RPC block fetch retries with exponential backoff capped at
\* 120 s: after the k-th consecutive failure it waits 2^k seconds (2, 4, ...,
\* 64) and tries again, it reports the failure at the first failure whose
\* wait would exceed 120 s (the 7th), and a success on any attempt returns
\* the block at once without further waiting.
C29_Backoff ==
  (last_fetch # None /\ last_fetch[1].via = "rpc") =>
    LET f == last_fetch[1]
    IN  /\ f.failures < 7 =>
             /\ f.kind # "err"
             /\ f.sleeps = [k \in 1..f.failures |-> 2 ^ k]
        /\ f.failures >= 7 =>
             /\ f.kind = "err"
             /\ f.sleeps = <<2, 4, 8, 16, 32, 64>>

\* a fetch that succeeded after six failures and a wait of 64 seconds, the
\* longest there is
C29_Witness ==
  /\ last_fetch # None
  /\ last_fetch[1].via = "rpc"
  /\ last_fetch[1].failures = 6
  /\ last_fetch[1].kind = "block"
  /\ last_fetch[1].sleeps = <<2, 4, 8, 16, 32, 64>>

\* the headers are linked, and nothing is written for a block whose header
\* is not stored
Linked(w) ==
  /\ \A h \in 2..Len(w.headers) : w.headers[h].prev = w.headers[h - 1].hash
  /\ w.written = {w.headers[h].hash : h \in 1..Len(w.headers)}

\* index_block has just failed on a reorg
ReorgFound == result # "reorg" /\ result' = "reorg"

\* the step that follows a failure on a reorg: back to the most recent
\* savepoint that has no block at or above the fork point, or marked
\* unrecoverably reorged and stopped
ReorgHandled ==
  LET f == ForkPoint(wtx.headers, node_chain, 0)
      covering == Covering(savepoints, f)
  IN  IF covering # {}
      THEN /\ store' = savepoints[Max(covering)]
           /\ \A i \in covering : Len(savepoints[i].headers) <= Len(store'.headers)
           /\ ~unrecoverably_reorged'
           /\ result' = "none"
      ELSE /\ unrecoverably_reorged'
           /\ result' = "error"
           /\ running' = "no"

C17_RpcFailureIsFatal ==
  (rpc_gave_up /\ running = "no") => result # "ok"

----------------------------------------------------------------------------
(* The input prefetcher: spawn_fetcher's task and the two loops of
   index_utxo_entries that talk to it *)

\* usize::next_power_of_two
next_power_of_two(n) ==
  CHOOSE p \in {1, 2, 4, 8, 16} :
    p >= n /\ \A q \in {1, 2, 4, 8, 16} : q >= n => p <= q

\* mpsc::channel::<OutPoint>(CHANNEL_BUFFER_SIZE) holds that many outpoints
OutpointChannelCapacity == ChannelBufferSize

\* broadcast::channel::<TxOut>(CHANNEL_BUFFER_SIZE) retains the capacity
\* rounded up to a power of two
TxOutChannelCapacity == next_power_of_two(ChannelBufferSize)

\* broadcast::Sender::send: never waits; the oldest retained value is
\* overwritten when the channel is full, and the receiver that had not read
\* it has lagged
broadcast_send(buffer, value) ==
  IF Len(buffer) < TxOutChannelCapacity
  THEN [buffer |-> Append(buffer, value), overwrote |-> FALSE]
  ELSE [buffer |-> Append(Tail(buffer), value), overwrote |-> TRUE]

\* broadcast::Receiver::blocking_recv that treats a channel whose sender is
\* gone as one that may still be written to
blocking_recv_NeverClosed(buffer, has_lagged, sender_dropped) ==
  IF has_lagged THEN [kind |-> "err"]
  ELSE IF buffer # <<>> THEN [kind |-> "value", value |-> Head(buffer), rest |-> Tail(buffer)]
  ELSE [kind |-> "wait"]

\* broadcast::Receiver::blocking_recv: Err(Lagged) when values were
\* overwritten, the oldest value when there is one, Err(Closed) when there
\* is none and the sender was dropped, and else the caller waits
blocking_recv(buffer, has_lagged, sender_dropped) ==
  IF has_lagged THEN [kind |-> "err"]
  ELSE IF buffer # <<>> THEN [kind |-> "value", value |-> Head(buffer), rest |-> Tail(buffer)]
  ELSE IF sender_dropped THEN [kind |-> "err"]
  ELSE [kind |-> "wait"]

\* mpsc::Sender::blocking_send: Err when the receiver was dropped, else the
\* value is queued when the channel has room, and else the caller waits
blocking_send(channel, value, receiver_dropped) ==
  IF receiver_dropped THEN [kind |-> "err"]
  ELSE IF Len(channel) < OutpointChannelCapacity
  THEN [kind |-> "sent", channel |-> Append(channel, value)]
  ELSE [kind |-> "wait"]

\* The transaction with this txid: its outputs are told apart by their value
TransactionOf(txid) ==
  [txid |-> txid, output |-> [v \in 1..MaxMissing |-> [value |-> 10 * txid + v - 1]]]

\* Fetcher::get_transactions: the transactions of the txids, in their order
get_transactions(txids) == [i \in 1..Len(txids) |-> TransactionOf(txids[i])]

\* slice::chunks
RECURSIVE chunks(_, _)
chunks(s, chunk_size) ==
  IF Len(s) = 0 THEN <<>>
  ELSE <<SubSeq(s, 1, Min(chunk_size, Len(s)))>>
       \o chunks(SubSeq(s, Min(chunk_size, Len(s)) + 1, Len(s)), chunk_size)

\* Iterator::flatten of a sequence of sequences
RECURSIVE flatten(_)
flatten(ss) == IF Len(ss) = 0 THEN <<>> ELSE Head(ss) \o flatten(Tail(ss))

\* The fetcher's batch split into chunks for parallel requests and joined:
\* `txs.iter().flatten()`
fetch_txs(batch) ==
  LET chunk_size == chunk_size_for(Len(batch), ParallelRequests)
      cs == chunks(batch, chunk_size)
      futs == [c \in 1..Len(cs) |->
                 get_transactions([i \in 1..Len(cs[c]) |-> cs[c][i][1]])]
  IN  flatten(futs)

\* tx.output[outpoints[i].vout]
OutputOf(outpoint) == TransactionOf(outpoint[1]).output[outpoint[2] + 1]

\* An input of the block: its previous output and where index_utxo_entries
\* finds it: "null" (coinbase), "block" (made earlier in this block),
\* "cache" (utxo_cache), "store" (OUTPOINT_TO_UTXO_ENTRY) or "none"
Input(outpoint, known) == [previous_output |-> outpoint, known |-> known]

IsMissing(input) == input.known = "none"

\* MaxMissing distinct outpoints that nothing knows, of three transactions,
\* in two orders
MissingOrders ==
  { [i \in 1..MaxMissing |-> <<((i - 1) % 3) + 1, (i - 1) \div 3>>],
    [i \in 1..MaxMissing |-> <<((MaxMissing - i) % 3) + 1, (MaxMissing - i) \div 3>>] }

\* The inputs of a block: up to MaxMissing missing ones, alone or after a
\* coinbase input and between inputs found in the block, the cache or the store
BlockInputLists ==
  { [i \in 1..n |-> Input(o[i], "none")] : n \in 0..MaxMissing, o \in MissingOrders }
  \cup { << Input(NullOutpoint, "null"), Input(<<4, 0>>, "block"),
            Input(<<1, 1>>, "none"), Input(<<5, 0>>, "cache"),
            Input(<<1, 0>>, "none"), Input(<<6, 1>>, "store"),
            Input(<<2, 0>>, "none") >> }

InitPrefetch == InitLedgers /\ IdleUpdater /\ IdleSats /\ IdleSource /\ IdlePrefetch

otherPrefetchVars == <<drcVars, dnsVars, runVars, satVars, srcVars>>

\* index_utxo_entries begins a block: the response channel must be empty
StartBlock ==
  /\ main = "idle"
  /\ blocks_indexed < MaxFetchBlocks
  /\ IF txout_channel # <<>> \/ lagged \/ fetcher = "stopped"
     THEN /\ main' = "panicked"
          /\ UNCHANGED <<block_inputs, txouts>>
     ELSE /\ main' = "sending"
          /\ block_inputs' \in BlockInputLists
          /\ txouts' = <<>>
  /\ requested' = 0
  /\ inputs_spent' = 0
  /\ UNCHANGED <<outpoint_channel, fetcher, outpoints, txs, send_index,
                 txout_channel, lagged, blocks_indexed>>
  /\ UNCHANGED otherPrefetchVars

\* The request loop reaches the next input: an input that is known is passed
\* over, a missing one is sent to the fetcher; blocking_send waits while the
\* channel is full and fails when the fetcher is gone
SendOutpoint ==
  /\ main = "sending"
  /\ requested < Len(block_inputs)
  /\ LET input == block_inputs[requested + 1]
         sent == blocking_send(outpoint_channel, input.previous_output,
                               fetcher = "stopped")
     IN  IF ~IsMissing(input)
         THEN /\ requested' = requested + 1
              /\ UNCHANGED <<outpoint_channel, main>>
         ELSE /\ sent.kind # "wait"
              /\ IF sent.kind = "err"
                 THEN /\ main' = "failed"
                      /\ UNCHANGED <<outpoint_channel, requested>>
                 ELSE /\ outpoint_channel' = sent.channel
                      /\ requested' = requested + 1
                      /\ UNCHANGED main
  /\ UNCHANGED <<block_inputs, fetcher, outpoints, txs, send_index,
                 txout_channel, lagged, txouts, inputs_spent, blocks_indexed>>
  /\ UNCHANGED otherPrefetchVars

\* The request loop has ended; the transactions of the block are indexed
StartIndexing ==
  /\ main = "sending"
  /\ requested = Len(block_inputs)
  /\ main' = "indexing"
  /\ UNCHANGED <<block_inputs, requested, outpoint_channel, fetcher, outpoints,
                 txs, send_index, txout_channel, lagged, txouts, inputs_spent,
                 blocks_indexed>>
  /\ UNCHANGED otherPrefetchVars

\* The next input is spent: from the cache, from the store, or, when neither
\* has it, from txout_receiver.blocking_recv(), which waits for a value and
\* fails when the receiver has lagged or the fetcher is gone
SpendInput ==
  /\ main = "indexing"
  /\ inputs_spent < Len(block_inputs)
  /\ LET input == block_inputs[inputs_spent + 1]
         txout == blocking_recv(txout_channel, lagged, fetcher = "stopped")
     IN  IF ~IsMissing(input)
         THEN /\ inputs_spent' = inputs_spent + 1
              /\ UNCHANGED <<txout_channel, txouts, main, lagged>>
         ELSE /\ txout.kind # "wait"
              /\ IF txout.kind = "err"
                 THEN /\ main' = "failed"
                      /\ UNCHANGED <<txout_channel, txouts, inputs_spent, lagged>>
                 ELSE /\ txouts' = Append(txouts, txout.value)
                      /\ txout_channel' = txout.rest
                      /\ inputs_spent' = inputs_spent + 1
                      /\ UNCHANGED <<main, lagged>>
  /\ UNCHANGED <<block_inputs, requested, outpoint_channel, fetcher, outpoints,
                 txs, send_index, blocks_indexed>>
  /\ UNCHANGED otherPrefetchVars

\* index_utxo_entries returns Ok
FinishBlock ==
  /\ main = "indexing"
  /\ inputs_spent = Len(block_inputs)
  /\ main' = "idle"
  /\ blocks_indexed' = blocks_indexed + 1
  /\ UNCHANGED <<block_inputs, requested, outpoint_channel, fetcher, outpoints,
                 txs, send_index, txout_channel, lagged, txouts, inputs_spent>>
  /\ UNCHANGED otherPrefetchVars

\* The fetcher task: outpoint_receiver.recv().await returns the first
\* outpoint of a batch
FetcherRecv ==
  /\ fetcher = "waiting"
  /\ outpoint_channel # <<>>
  /\ outpoints' = <<Head(outpoint_channel)>>
  /\ outpoint_channel' = Tail(outpoint_channel)
  /\ fetcher' = "batching"
  /\ UNCHANGED <<block_inputs, requested, txs, send_index, txout_channel,
                 lagged, txouts, main, inputs_spent, blocks_indexed>>
  /\ UNCHANGED otherPrefetchVars

\* try_recv returns one more outpoint of the batch
FetcherTryRecv ==
  /\ fetcher = "batching"
  /\ Len(outpoints) < BatchSize
  /\ outpoint_channel # <<>>
  /\ outpoints' = Append(outpoints, Head(outpoint_channel))
  /\ outpoint_channel' = Tail(outpoint_channel)
  /\ UNCHANGED <<block_inputs, requested, fetcher, txs, send_index,
                 txout_channel, lagged, txouts, main, inputs_spent, blocks_indexed>>
  /\ UNCHANGED otherPrefetchVars

\* The batch is full or try_recv found the channel empty: the transactions
\* are fetched in chunks; when a lookup fails try_join_all gives Err and the
\* task returns, which drops its ends of both channels
FetcherFetch ==
  /\ fetcher = "batching"
  /\ Len(outpoints) = BatchSize \/ outpoint_channel = <<>>
  /\ \E lookup_fails \in BOOLEAN :
       IF lookup_fails
       THEN /\ fetcher' = "stopped"
            /\ outpoints' = <<>>
            /\ UNCHANGED txs
       ELSE /\ \E fetched \in {fetch_txs(outpoints)} : txs' = fetched
            /\ fetcher' = "sending"
            /\ UNCHANGED outpoints
  /\ send_index' = 0
  /\ UNCHANGED <<block_inputs, requested, outpoint_channel,
                 txout_channel, lagged, txouts, main, inputs_spent, blocks_indexed>>
  /\ UNCHANGED otherPrefetchVars

\* The send loop publishes the output of the next transaction, or ends
FetcherSend ==
  /\ fetcher = "sending"
  /\ IF send_index < Len(txs)
     THEN /\ \E sent \in {broadcast_send(txout_channel,
                            txs[send_index + 1].output[outpoints[send_index + 1][2] + 1])} :
               /\ txout_channel' = sent.buffer
               /\ lagged' = (lagged \/ sent.overwrote)
          /\ send_index' = send_index + 1
          /\ UNCHANGED <<fetcher, outpoints, txs>>
     ELSE /\ fetcher' = "waiting"
          /\ outpoints' = <<>>
          /\ txs' = <<>>
          /\ send_index' = 0
          /\ UNCHANGED <<txout_channel, lagged>>
  /\ UNCHANGED <<block_inputs, requested, outpoint_channel, txouts, main,
                 inputs_spent, blocks_indexed>>
  /\ UNCHANGED otherPrefetchVars

NextPrefetch ==
  \/ StartBlock
  \/ SendOutpoint
  \/ StartIndexing
  \/ SpendInput
  \/ FinishBlock
  \/ FetcherRecv
  \/ FetcherTryRecv
  \/ FetcherFetch
  \/ FetcherSend

SpecPrefetch == InitPrefetch /\ [][NextPrefetch]_vars

\* The main thread and the fetcher thread both keep running: a step of
\* either that can be taken is taken in the end.  That a further block
\* arrives is not assumed.
SpecPrefetchFair ==
  /\ SpecPrefetch
  /\ WF_vars(SendOutpoint)
  /\ WF_vars(StartIndexing)
  /\ WF_vars(SpendInput)
  /\ WF_vars(FinishBlock)
  /\ WF_vars(FetcherRecv)
  /\ WF_vars(FetcherTryRecv)
  /\ WF_vars(FetcherFetch)
  /\ WF_vars(FetcherSend)

\* C38: when the prefetch worker has stopped because a transaction lookup
\* failed, a main task that is at, or later reaches, the wait for a
\* prefetched output does not wait forever: index_block fails, and the
\* block being indexed is never counted as indexed
C38_WaitEndsWithError ==
  /\ (fetcher = "stopped" /\ main \in {"sending", "indexing"}) ~> (main = "failed")
  /\ [][fetcher = "stopped" => blocks_indexed' = blocks_indexed]_vars

\* the worker has stopped, the main task has taken the outputs that were
\* already published and its next wait has ended with an error
C38_Witness ==
  /\ fetcher = "stopped"
  /\ main = "failed"
  /\ ~lagged
  /\ txout_channel = <<>>
  /\ txouts # <<>>
  /\ inputs_spent < Len(block_inputs)

----------------------------------------------------------------------------
(* C19 *)

RECURSIVE PreviousOutputs(_)
PreviousOutputs(inputs) ==
  IF Len(inputs) = 0 THEN <<>>
  ELSE <<Head(inputs).previous_output>> \o PreviousOutputs(Tail(inputs))

\* The outpoints the main task has requested for the block, in request order
Requested ==
  PreviousOutputs(SelectSeq(SubSeq(block_inputs, 1, requested), IsMissing))

\* C19: for any block, with any number of missing inputs (more than one
\* batch and more than the channel capacity included), the main task
\* receives exactly as many prefetched outputs as outpoints it requested,
\* the k-th output it receives is the output named by the k-th outpoint it
\* requested, and at the start of the next block the response channel is
\* empty (as long as no transaction lookup has failed).
C19_PrefetchedInRequestOrder ==
  fetcher # "stopped" =>
    /\ main \notin {"failed", "panicked"}
    /\ Len(txouts) <= Len(Requested)
    /\ \A k \in 1..Len(txouts) : txouts[k] = OutputOf(Requested[k])
    /\ (main = "idle" /\ blocks_indexed > 0) =>
         /\ Len(txouts) = Len(Requested)
         /\ txout_channel = <<>>
         /\ ~lagged

\* the number of blocks update_index has to have stored when it returns: the
\* blocks of the node's chain, below the height limit if there is one
BlocksToIndex ==
  IF height_limit # None THEN Min(height_limit[1], Len(node_chain))
  ELSE Len(node_chain)

\* C40: if the upstream chain has a finite tip, no RPC call fails and no
\* shutdown is requested, update_index eventually returns successfully with
\* every block from its start height up to the tip (or the height limit,
\* if lower) indexed and committed, and with the producer thread finished.
C40_UpdateIndexCompletes ==
  (running = "loop") ~>
    (/\ running = "no"
     /\ result = "ok"
     /\ fetch_ended
     /\ uncommitted = 0
     /\ Len(store.headers) = BlocksToIndex)

====
